---- MODULE Spec2Model ----
(***************************************************************************)
(* Steel-Sync: the database-file backup / restore subsystem of the Tauri   *)
(* backend (src-tauri/src/main.rs, src-tauri/src/windows_support.rs).      *)
(*                                                                         *)
(* Every file-system call of the code is one step of the model; whether it *)
(* succeeds is the environment's choice (locks, permissions, full disks).  *)
(***************************************************************************)
EXTENDS Integers, Sequences, FiniteSets, TLC

(* ---------------------------------------------------------------------- *)
(* Bounds and program constants                                           *)
(* ---------------------------------------------------------------------- *)

\* number of distinct byte contents a caller may supply
MaxData == 2

\* the five candidate directories of get_windows_app_data_dir, in order:
\* 1 APPDATA, 2 LOCALAPPDATA, 3 USERPROFILE\Documents, 4 TEMP, 5 cwd\data
NCandidates == 5

\* the directory atomic_database_replace derives from APPDATA (or HOME)
AppData == 1

\* retry counts of the loops in atomic_database_replace / windows_safe_file_replace
MoveOldAttempts == 3
DeleteAttempts == 5
MoveAttempts == 5
CleanupAttempts == 3

Data == 1..MaxData
Dirs == 1..NCandidates

(* ---------------------------------------------------------------------- *)
(* Files                                                                  *)
(* ---------------------------------------------------------------------- *)

\* a path with no file
Absent == [kind |-> "absent", id |-> 0]
\* a file holding exactly the bytes numbered n
Whole(n) == [kind |-> "whole", id |-> n]
\* a file that a failed write or copy left truncated / partially written
Torn == [kind |-> "torn", id |-> 0]

File == {Absent, Torn} \cup {Whole(n) : n \in Data}

Exists(f) == f.kind # "absent"

\* std::fs::write(path, data): create-or-truncate, then write everything.
\* A failure either happens before the file is opened (nothing changes) or
\* after it was truncated (a partial file stays).
WriteOutcomes(old, data) ==
    { [ok |-> TRUE,  dst |-> Whole(data)],
      [ok |-> FALSE, dst |-> old],
      [ok |-> FALSE, dst |-> Torn] }

\* std::fs::rename(src, dst): atomically moves src over dst, or fails and
\* changes nothing. It always fails when src does not exist.
RenameOutcomes(src, dst) ==
    { [ok |-> FALSE, src |-> src, dst |-> dst] } \cup
    ( IF Exists(src) THEN { [ok |-> TRUE, src |-> Absent, dst |-> src] } ELSE {} )

\* std::fs::copy(src, dst): overwrites dst with the bytes of src; src is only
\* read. A failure leaves dst as it was or partially written.
CopyOutcomes(src, dst) ==
    { [ok |-> FALSE, dst |-> dst] } \cup
    ( IF Exists(src)
        THEN { [ok |-> TRUE, dst |-> src], [ok |-> FALSE, dst |-> Torn] }
        ELSE {} )

\* std::fs::remove_file(f): removes the file or fails and changes nothing.
RemoveOutcomes(f) ==
    { [ok |-> FALSE, dst |-> f] } \cup
    ( IF Exists(f) THEN { [ok |-> TRUE, dst |-> Absent] } ELSE {} )

(* ---------------------------------------------------------------------- *)
(* State                                                                  *)
(* ---------------------------------------------------------------------- *)

VARIABLES
    windows,      \* cfg!(target_os = "windows") of this build
    db,           \* db[d]: store.db in candidate directory d
    tmp,          \* store.db.restore.tmp beside the APPDATA store.db
    bak,          \* store.db.backup.tmp beside the APPDATA store.db
    pc,           \* position of the running atomic_database_replace call
    attempt,      \* loop variable of the retry loop in progress
    success,      \* the local `success` flag
    backup_data,  \* the bytes passed to the call
    result,       \* what the call returned
    pre,          \* history: db[AppData] when the call started
    log,          \* history: what the call has done so far
    tries,        \* history: the file-system calls of the call, in order
    cand,         \* cand[d]: candidate directory d is missing ("nodir"), exists
                  \* ("dir"), or exists and holds write_test.tmp ("marker")
    rpc,          \* position of the running get_windows_app_data_dir call
    rIdx,         \* the strategy (candidate) the call is at
    rCaller,      \* the command that called the resolver
    rResult,      \* what the resolver returned
    rTried,       \* history: the strategies the call went through, in order
    rPassed,      \* history: the candidates whose write probe returned Ok
    rLastErr,     \* history: the error of the last failed probe of the call
    pathResult,   \* what get_database_path returned
    dest,         \* dest[d]: the backup file backups/<name> in directory d
    spc,          \* position of the running create_consistent_backup call
    sDir,         \* the directory the call resolved (app_data_dir)
    sResult,      \* what the call returned
    sPre,         \* history: dest when the call started
    slog,         \* history: what the call has done so far
    backup_size,  \* the local `backup_size`: the length fs::metadata reported
    fileA,        \* a file handed to calculate_fast_checksum
    fileB,        \* another file handed to calculate_fast_checksum
    sumA,         \* what calculate_fast_checksum returned for fileA
    sumB,         \* what calculate_fast_checksum returned for fileB
    rfile,        \* rfile[d]: the file at <d>/<relative_path>
    scratch,      \* scratch[d]: the same path with extension tmp_delete
    dpc,          \* position of the running cleanup_restore_file call
    dDir,         \* the directory the call resolved (app_data_dir)
    dsuccess,     \* the local `success` flag of the call
    dResult,      \* what the call returned
    dPre,         \* history: rfile when the call started
    dlog,         \* history: what the call has done and seen, in order
    prb,          \* prb[d]: the file store.db.pre-restore-backup in directory d
    upc,          \* position of the running startup_database_restore call
    uDir,         \* the directory the call resolved (app_data_dir)
    uData,        \* the bytes passed to the call
    uResult,      \* what the call returned
    uPre,         \* history: db when the call started
    uCalls,       \* history: how many calls have been made
    cpc,          \* position of the running close_database_connections call
    cIdx,         \* the statement the call is at
    cConn,        \* the call holds an open connection
    cResult,      \* what the call returned
    clog,         \* history: the statements the call ran and how each ended
    now,          \* the time, in milliseconds
    alive,        \* the process has not exited
    exitCode,     \* the status std::process::exit was called with
    qpc,          \* position of the running restart_application call
    qResult,      \* what the call returned
    tpc,          \* position of the background thread the call spawned
    tWake,        \* the time at which the thread's sleep is over
    scheduledAt,  \* history: the time at which the thread was spawned
    returnedAt,   \* history: the time at which the call returned
    files,        \* files[p]: the file at path p, for the side-file commands
    kpc,          \* position of the running side-file command
    kKind,        \* "wal" for restore_wal_file, "shm" for restore_shm_file
    kPath,        \* the db_path argument of the call
    kData,        \* the backup_data argument of the call
    kResult,      \* what the call returned
    kPre,         \* history: files when the call began
    calls         \* calls[p]: the locals of concurrent replace call p

replaceVars ==
    <<db, tmp, bak, pc, attempt, success, backup_data, result, pre, log, tries>>

resolveVars == <<cand, rpc, rIdx, rCaller, rResult, rTried, rPassed, rLastErr, pathResult>>

snapVars == <<dest, spc, sDir, sResult, sPre, slog, backup_size>>

sumVars == <<fileA, fileB, sumA, sumB>>

delVars == <<rfile, scratch, dpc, dDir, dsuccess, dResult, dPre, dlog>>

startVars == <<prb, upc, uDir, uData, uResult, uPre, uCalls>>

closeVars == <<cpc, cIdx, cConn, cResult, clog>>

restartVars ==
    <<now, alive, exitCode, qpc, qResult, tpc, tWake, scheduledAt, returnedAt>>

sideVars == <<files, kpc, kKind, kPath, kData, kResult, kPre>>

vars ==
    <<windows, replaceVars, resolveVars, snapVars, sumVars, delVars, startVars,
      closeVars, restartVars, sideVars, calls>>

target == db[AppData]

SetTarget(f) == [db EXCEPT ![AppData] = f]

(* ---------------------------------------------------------------------- *)
(* atomic_database_replace                                                *)
(* ---------------------------------------------------------------------- *)

\* one file-system call of the history: the operation, the number of the
\* attempt, how it ended, and the sleep that followed it, in milliseconds
Try(op, n, ok, pause) == [op |-> op, n |-> n, ok |-> ok, pause |-> pause]

\* main.rs 251: the unit of the sleep after a failed rename to the backup path
MoveOldPauseMs == 500
\* main.rs 276: the unit of the sleep after a failed delete
DeletePauseMs == 1000
\* main.rs 307: the unit of the sleep after a failed rename of the temp file
MovePauseMs == 1000
\* windows_support.rs 165: the sleep after a failed removal of the source
CleanupPauseMs == 500

\* main.rs 250-252, 275-277, 306-307: after failed attempt number `attempt`
\* of `limit` the thread sleeps unit * attempt, except after the last one
Backoff(unit, att, limit) == IF att < limit THEN unit * att ELSE 0

\* the call ends: the value it returns, nothing else changes
Return(r) ==
    /\ pc' = "ret"
    /\ result' = r

\* main.rs 213 / 229 / 291: where the call goes once the temp file is staged
AfterStaged ==
    IF windows /\ Exists(target) THEN "w_backup"
    ELSE IF Exists(target) THEN "g_rmold"
    ELSE "g_move"

\* main.rs 183-201: the command is invoked; APPDATA / HOME is looked up
ReplaceBegin ==
    /\ pc = "idle"
    /\ \E data \in Data, envOk \in BOOLEAN :
        /\ backup_data' = data
        /\ pre' = target
        /\ attempt' = 1
        /\ success' = FALSE
        /\ tries' = <<>>
        /\ IF envOk
             THEN pc' = "write" /\ result' = "none" /\ log' = {}
             ELSE Return("EnvMissing") /\ log' = {"envMissing"}
    /\ UNCHANGED <<db, tmp, bak>>

\* main.rs 207-208: Step 1, write the new data to the temporary file
WriteTemp ==
    /\ pc = "write"
    /\ \E o \in WriteOutcomes(tmp, backup_data) :
        /\ tmp' = o.dst
        /\ tries' = Append(tries, Try("write", 1, o.ok, 0))
        /\ IF o.ok
             THEN /\ pc' = AfterStaged
                  /\ result' = result
                  /\ log' = log \cup {"staged"}
             ELSE /\ Return("WriteTempFailed")
                  /\ log' = log \cup {"fault"}
    /\ UNCHANGED <<db, bak, attempt, success, backup_data, pre>>

(* ---------------------------------------------------------------------- *)
(* windows_safe_file_replace (called from main.rs 213-226)                *)
(* ---------------------------------------------------------------------- *)

\* windows_support.rs 129-134: Step 1, copy the target to the backup path
WinBackup ==
    /\ pc = "w_backup"
    /\ IF Exists(target)
         THEN \E o \in CopyOutcomes(target, bak) :
                /\ bak' = o.dst
                /\ tries' = Append(tries, Try("winBackup", 1, o.ok, 0))
                /\ IF o.ok
                     THEN /\ pc' = "w_rename"
                          /\ result' = result
                          /\ log' = log \cup {"backupMade"}
                     ELSE /\ Return("BackupFailed")
                          /\ log' = log \cup {"fault", "backupCopyFailed"}
         ELSE /\ pc' = "w_rename"
              /\ UNCHANGED <<bak, result, log, tries>>
    /\ UNCHANGED <<db, tmp, attempt, success, backup_data, pre>>

\* windows_support.rs 137-143: Strategy 1, rename the source onto the target
WinRename ==
    /\ pc = "w_rename"
    /\ \E o \in RenameOutcomes(tmp, target) :
        /\ tmp' = o.src
        /\ db' = SetTarget(o.dst)
        /\ tries' = Append(tries, Try("renameOnto", 1, o.ok, 0))
        /\ IF o.ok
             THEN /\ success' = TRUE
                  /\ pc' = "w_finish"
                  /\ log' = log \cup {"renameOnto", "put"}
             ELSE /\ success' = FALSE
                  /\ pc' = "w_copy"
                  /\ log' = log \cup {"renameOnto", "fault"}
    /\ UNCHANGED <<bak, attempt, backup_data, result, pre>>

\* windows_support.rs 144-150, 171-173: Strategy 2, copy the source onto the target
WinCopy ==
    /\ pc = "w_copy"
    /\ \E o \in CopyOutcomes(tmp, target) :
        /\ db' = SetTarget(o.dst)
        /\ tries' = Append(tries, Try("copyOnto", 1, o.ok, 0))
        /\ IF o.ok
             THEN /\ pc' = "w_rmsrc"
                  /\ attempt' = 1
                  /\ result' = result
                  /\ log' = log \cup {"copyOnto", "put"}
             ELSE /\ Return("CopyFailed")
                  /\ attempt' = attempt
                  /\ log' = log \cup {"copyOnto", "fault"}
    /\ UNCHANGED <<tmp, bak, success, backup_data, pre>>

\* windows_support.rs 152-169: remove the source, up to three attempts; the
\* third failure still counts as success
WinRemoveSource ==
    /\ pc = "w_rmsrc"
    /\ \E o \in RemoveOutcomes(tmp) :
        /\ tmp' = o.dst
        /\ tries' = Append(tries, Try("removeSource", attempt, o.ok,
                                      IF o.ok \/ attempt = CleanupAttempts
                                        THEN 0 ELSE CleanupPauseMs))
        /\ IF o.ok
             THEN /\ success' = TRUE
                  /\ pc' = "w_finish"
                  /\ attempt' = attempt
                  /\ log' = log
             ELSE /\ log' = log \cup {"fault"}
                  /\ IF attempt = CleanupAttempts
                       THEN /\ success' = TRUE
                            /\ pc' = "w_finish"
                            /\ attempt' = attempt
                       ELSE /\ success' = success
                            /\ pc' = pc
                            /\ attempt' = attempt + 1
    /\ UNCHANGED <<db, bak, backup_data, result, pre>>

\* windows_support.rs 177-187 and main.rs 217-225: report success, or restore
\* the backup onto the target and report failure
WinFinish ==
    /\ pc = "w_finish"
    /\ IF success
         THEN /\ Return("Ok")
              /\ UNCHANGED <<db, log, tries>>
         ELSE /\ Return("ReplaceFailed")
              /\ IF Exists(bak)
                   THEN \E o \in CopyOutcomes(bak, target) :
                          /\ db' = SetTarget(o.dst)
                          /\ log' = log \cup {"rollback"}
                          /\ tries' = Append(tries, Try("copyBack", 1, o.ok, 0))
                   ELSE UNCHANGED <<db, log, tries>>
    /\ UNCHANGED <<tmp, bak, attempt, success, backup_data, pre>>

(* ---------------------------------------------------------------------- *)
(* atomic_database_replace, the path taken when the build is not Windows  *)
(* or the target does not exist                                           *)
(* ---------------------------------------------------------------------- *)

\* main.rs 232-238: remove an old backup file if there is one (result ignored)
GenRemoveOldBackup ==
    /\ pc = "g_rmold"
    /\ IF Exists(bak)
         THEN \E o \in RemoveOutcomes(bak) :
                /\ bak' = o.dst
                /\ log' = IF o.ok THEN log ELSE log \cup {"fault"}
                /\ tries' = Append(tries, Try("removeOldBackup", 1, o.ok, 0))
         ELSE UNCHANGED <<bak, log, tries>>
    /\ pc' = "g_mvold"
    /\ attempt' = 1
    /\ success' = FALSE
    /\ UNCHANGED <<db, tmp, backup_data, result, pre>>

\* main.rs 240-255: Strategy 1, rename the database to the backup path
GenMoveOld ==
    /\ pc = "g_mvold"
    /\ \E o \in RenameOutcomes(target, bak) :
        /\ db' = SetTarget(o.src)
        /\ bak' = o.dst
        /\ tries' = Append(tries, Try("moveOld", attempt, o.ok,
                                      IF o.ok THEN 0
                                      ELSE Backoff(MoveOldPauseMs, attempt, MoveOldAttempts)))
        /\ IF o.ok
             THEN /\ success' = TRUE
                  /\ pc' = "g_move"
                  /\ attempt' = 1
                  /\ log' = log \cup {"backupMade", "movedAway"}
             ELSE /\ success' = success
                  /\ log' = log \cup {"fault"}
                  /\ IF attempt < MoveOldAttempts
                       THEN pc' = pc /\ attempt' = attempt + 1
                       ELSE pc' = "g_copy" /\ attempt' = attempt
    /\ UNCHANGED <<tmp, backup_data, result, pre>>

\* AfterBackupCopyFailed as it would be if the error were logged and the
\* delete loop entered all the same
AfterBackupCopyFailed_Continue == "g_del"

\* where the call goes when the copy of the database to the backup path failed
\* (main.rs 262-263: the `?` returns the error)
AfterBackupCopyFailed == "ret"

\* main.rs 257-263: Strategy 2, copy the database to the backup path
GenCopyOld ==
    /\ pc = "g_copy"
    /\ \E o \in CopyOutcomes(target, bak) :
        /\ bak' = o.dst
        /\ tries' = Append(tries, Try("copyOld", 1, o.ok, 0))
        /\ IF o.ok
             THEN /\ pc' = "g_del"
                  /\ attempt' = 1
                  /\ result' = result
                  /\ log' = log \cup {"backupMade"}
             ELSE /\ pc' = AfterBackupCopyFailed
                  /\ attempt' = 1
                  /\ result' = IF AfterBackupCopyFailed = "ret"
                                 THEN "BackupFailed" ELSE result
                  /\ log' = log \cup {"fault", "backupCopyFailed"}
    /\ UNCHANGED <<db, tmp, success, backup_data, pre>>

\* main.rs 265-285: delete the database, up to five attempts
GenDelete ==
    /\ pc = "g_del"
    /\ \E o \in RemoveOutcomes(target) :
        /\ db' = SetTarget(o.dst)
        /\ tries' = Append(tries, Try("delete", attempt, o.ok,
                                      IF o.ok THEN 0
                                      ELSE Backoff(DeletePauseMs, attempt, DeleteAttempts)))
        /\ IF o.ok
             THEN /\ success' = TRUE
                  /\ pc' = "g_move"
                  /\ attempt' = 1
                  /\ result' = result
                  /\ log' = log \cup {"deleted"}
             ELSE /\ success' = success
                  /\ log' = log \cup {"fault"}
                  /\ IF attempt < DeleteAttempts
                       THEN pc' = pc /\ attempt' = attempt + 1 /\ result' = result
                       ELSE Return("RemoveFailed") /\ attempt' = attempt
    /\ UNCHANGED <<tmp, bak, backup_data, pre>>

\* RetriesMove as it would be if the failure branch had no `else`
RetriesMove_NoElse(att) == TRUE

\* main.rs 306-308: a failed rename of the temp file is tried again while
\* attempt < 5; the else branch rolls back and returns
RetriesMove(att) == att < MoveAttempts

\* main.rs 288-295, 304-308, 320: Step 3, rename the temp file to the database
\* path, for attempt in 1..=5; past the loop the function returns its
\* 'Unexpected error'
GenMove ==
    /\ pc = "g_move"
    /\ IF attempt > MoveAttempts
         THEN /\ Return("Unexpected")
              /\ UNCHANGED <<db, tmp, attempt, log, tries>>
         ELSE \E o \in RenameOutcomes(tmp, target) :
                /\ tmp' = o.src
                /\ db' = SetTarget(o.dst)
                /\ tries' = Append(tries, Try("move", attempt, o.ok,
                                      IF o.ok THEN 0
                                      ELSE Backoff(MovePauseMs, attempt, MoveAttempts)))
                /\ result' = result
                /\ IF o.ok
                     THEN /\ pc' = "g_cleanup"
                          /\ attempt' = attempt
                          /\ log' = log \cup {"put"}
                     ELSE /\ log' = log \cup {"fault"}
                          /\ IF RetriesMove(attempt)
                               THEN pc' = pc /\ attempt' = attempt + 1
                               ELSE pc' = "g_rollback" /\ attempt' = attempt
    /\ UNCHANGED <<bak, success, backup_data, pre>>

\* GenCleanup as it would be if the success path forgot the backup file
GenCleanup_NoRemove ==
    /\ pc = "g_cleanup"
    /\ Return("Ok")
    /\ UNCHANGED <<db, tmp, bak, attempt, success, backup_data, pre, log, tries>>

\* main.rs 296-302: remove the backup file (result ignored) and return Ok
GenCleanup ==
    /\ pc = "g_cleanup"
    /\ IF Exists(bak)
         THEN \E o \in RemoveOutcomes(bak) :
                /\ bak' = o.dst
                /\ log' = IF o.ok THEN log \cup {"cleanup"}
                                  ELSE log \cup {"cleanup", "cleanupFailed"}
                /\ tries' = Append(tries, Try("cleanup", 1, o.ok, 0))
         ELSE UNCHANGED <<bak, log, tries>>
    /\ Return("Ok")
    /\ UNCHANGED <<db, tmp, attempt, success, backup_data, pre>>

\* AfterRollback as it would be if a failed rename back replaced the error
AfterRollback_Masked(ok) == IF ok THEN "MoveFailed" ELSE "RollbackFailed"

\* main.rs 311-314: the result of the rename back is dropped (`let _ =`); the
\* error returned is the one of the last rename of the temp file
AfterRollback(ok) == "MoveFailed"

\* main.rs 309-315: after the fifth failure, rename the backup back to the
\* database path (result ignored) and return the error
GenRollback ==
    /\ pc = "g_rollback"
    /\ IF Exists(bak)
         THEN \E o \in RenameOutcomes(bak, target) :
                /\ bak' = o.src
                /\ db' = SetTarget(o.dst)
                /\ log' = IF o.ok THEN log \cup {"rollback"}
                                  ELSE log \cup {"rollback", "rollbackFailed"}
                /\ tries' = Append(tries, Try("rollback", 1, o.ok, 0))
                /\ Return(AfterRollback(o.ok))
         ELSE /\ Return("MoveFailed")
              /\ UNCHANGED <<db, bak, log, tries>>
    /\ UNCHANGED <<tmp, attempt, success, backup_data, pre>>

\* the caller has its answer; the next command may be invoked
ReplaceReturn ==
    /\ pc = "ret"
    /\ pc' = "idle"
    /\ UNCHANGED <<db, tmp, bak, attempt, success, backup_data, result, pre, log, tries>>

(* ---------------------------------------------------------------------- *)
(* get_windows_app_data_dir, ensure_directory_writable, get_database_path *)
(* ---------------------------------------------------------------------- *)

\* no underlying error
NoError == [kind |-> "none", at |-> 0]
\* the io::Error of a failed create_dir_all / write in candidate c
ProbeError(k, c) == [kind |-> k, at |-> c]

\* windows_support.rs 67-75: write the marker file, then remove it; the
\* result of the removal is dropped. st is the directory, which exists.
WriteProbe(st, c) ==
    { [ok |-> FALSE, st |-> st,       err |-> ProbeError("write", c)],
      [ok |-> FALSE, st |-> "marker", err |-> ProbeError("write", c)],
      [ok |-> TRUE,  st |-> "dir",    err |-> NoError],
      [ok |-> TRUE,  st |-> "marker", err |-> NoError] }

\* windows_support.rs 60-76: ensure_directory_writable on candidate c whose
\* directory is in state st: the outcomes the file system allows
EnsureDirectoryWritable(st, c) ==
    IF st = "nodir"
      THEN { [ok |-> FALSE, st |-> "nodir", err |-> ProbeError("create", c)] }
           \cup WriteProbe("dir", c)
      ELSE WriteProbe(st, c)

\* windows_support.rs 56: the error the resolver returns; it is a fixed
\* string, whatever the probes reported
NoWritableLocation == [ok |-> FALSE, dir |-> 0, tag |-> "NoWritableLocation", cause |-> NoError]

ResolvedTo(c) == [ok |-> TRUE, dir |-> c, tag |-> "Ok", cause |-> NoError]

NoResult == [ok |-> FALSE, dir |-> 0, tag |-> "none", cause |-> NoError]

\* what follows strategy c when every later strategy is still tried even
\* though c was accepted (the early return forgotten)
AfterStrategy_NoEarlyReturn(c, accepted) ==
    IF c < NCandidates
      THEN [done |-> FALSE, res |-> IF accepted THEN ResolvedTo(c) ELSE rResult]
      ELSE [done |-> TRUE,
            res |-> IF accepted THEN ResolvedTo(c)
                    ELSE IF rResult.ok THEN rResult ELSE NoWritableLocation]

\* windows_support.rs 17-56: what follows strategy c: return its path when its
\* probe was accepted, else go on to the next strategy, else give up
AfterStrategy(c, accepted) ==
    IF accepted THEN [done |-> TRUE, res |-> ResolvedTo(c)]
    ELSE IF c < NCandidates THEN [done |-> FALSE, res |-> rResult]
    ELSE [done |-> TRUE, res |-> NoWritableLocation]

\* the resolver is entered on behalf of `caller`
ResolverCall(caller) ==
    /\ rpc' = "try"
    /\ rIdx' = 1
    /\ rCaller' = caller
    /\ rResult' = NoResult
    /\ rTried' = <<>>
    /\ rPassed' = {}
    /\ rLastErr' = NoError

\* windows_support.rs 17-54: one strategy: look up the root (an environment
\* variable, or the current directory), probe the candidate directory
Strategy ==
    /\ rpc = "try"
    /\ \E rootSet \in BOOLEAN :
        \E o \in IF rootSet THEN EnsureDirectoryWritable(cand[rIdx], rIdx)
                            ELSE { [ok |-> FALSE, st |-> cand[rIdx], err |-> NoError] } :
            LET after == AfterStrategy(rIdx, o.ok) IN
            /\ cand' = [cand EXCEPT ![rIdx] = o.st]
            /\ rTried' = Append(rTried, rIdx)
            /\ rPassed' = IF o.ok THEN rPassed \cup {rIdx} ELSE rPassed
            /\ rLastErr' = IF o.err # NoError THEN o.err ELSE rLastErr
            /\ rResult' = after.res
            /\ IF after.done
                 THEN rpc' = "ret" /\ rIdx' = rIdx
                 ELSE rpc' = "try" /\ rIdx' = rIdx + 1
    /\ UNCHANGED <<rCaller, pathResult>>

\* the resolver's frame is gone once its caller has taken the result
ResolverLeave ==
    /\ rpc' = "idle"
    /\ rIdx' = 1
    /\ rCaller' = "none"
    /\ rResult' = NoResult
    /\ rTried' = <<>>
    /\ rPassed' = {}
    /\ rLastErr' = NoError

\* main.rs 324-338: get_database_path is invoked; a Windows build resolves
\* the directory, any other build reads HOME
GetDatabasePath ==
    /\ rpc = "idle"
    /\ IF windows
         THEN /\ ResolverCall("get_database_path")
              /\ pathResult' = NoResult
         ELSE /\ \E homeSet \in BOOLEAN :
                   pathResult' = IF homeSet THEN ResolvedTo(AppData)
                                 ELSE [NoResult EXCEPT !.tag = "EnvMissing"]
              /\ UNCHANGED <<rpc, rIdx, rCaller, rResult, rTried, rPassed, rLastErr>>
    /\ UNCHANGED cand

\* main.rs 329, 336-337: the resolver returned; `?` passes its error on, a
\* path gets store.db appended
GetDatabasePathReturn ==
    /\ rpc = "ret"
    /\ rCaller = "get_database_path"
    /\ pathResult' = rResult
    /\ ResolverLeave
    /\ UNCHANGED cand

\* no resolver call is running
ResolveIdle ==
    /\ rpc = "idle"
    /\ rIdx = 1
    /\ rCaller = "none"
    /\ rResult = NoResult
    /\ rTried = <<>>
    /\ rPassed = {}
    /\ rLastErr = NoError
    /\ pathResult = NoResult

(* ---------------------------------------------------------------------- *)
(* create_consistent_backup                                               *)
(* ---------------------------------------------------------------------- *)

\* the call ends with the value it returns
SnapReturnWith(r) ==
    /\ spc' = "ret"
    /\ sResult' = r

\* main.rs 373-386: the command is invoked and looks for the data directory:
\* a Windows build calls the resolver, any other build asks dirs::data_dir(),
\* which names some directory or none
SnapBegin ==
    /\ spc = "idle"
    /\ rpc = "idle"
    /\ sPre' = dest
    /\ IF windows
         THEN /\ ResolverCall("create_consistent_backup")
              /\ spc' = "resolving"
              /\ slog' = {}
              /\ UNCHANGED <<sDir, sResult>>
         ELSE /\ \E found \in BOOLEAN, d \in Dirs :
                   IF found
                     THEN /\ sDir' = d
                          /\ spc' = "exists"
                          /\ slog' = {"resolved"}
                          /\ sResult' = sResult
                     ELSE /\ SnapReturnWith("NoDataDir")
                          /\ slog' = {}
                          /\ sDir' = sDir
              /\ UNCHANGED <<rpc, rIdx, rCaller, rResult, rTried, rPassed, rLastErr>>
    /\ UNCHANGED <<dest, backup_size, db, cand, pathResult>>

\* main.rs 381: the resolver returned; `?` passes its error on
SnapResolved ==
    /\ spc = "resolving"
    /\ rpc = "ret"
    /\ rCaller = "create_consistent_backup"
    /\ ResolverLeave
    /\ IF rResult.ok
         THEN /\ sDir' = rResult.dir
              /\ spc' = "exists"
              /\ slog' = slog \cup {"resolved"}
              /\ sResult' = sResult
         ELSE /\ SnapReturnWith(rResult.tag)
              /\ UNCHANGED <<sDir, slog>>
    /\ UNCHANGED <<dest, sPre, backup_size, db, cand, pathResult>>

\* where the call goes after db_path.exists() when the check is left out
AfterExistsCheck_Unchecked(exists) == "open"

\* main.rs 392-394: where the call goes after db_path.exists()
AfterExistsCheck(exists) == IF exists THEN "open" ELSE "ret"

\* main.rs 388-394: the database file must exist
SnapCheckExists ==
    /\ spc = "exists"
    /\ spc' = AfterExistsCheck(Exists(db[sDir]))
    /\ sResult' = IF spc' = "ret" THEN "SourceMissing" ELSE sResult
    /\ UNCHANGED <<dest, sDir, sPre, slog, backup_size, db, resolveVars>>

\* main.rs 396-404: open a connection to the database, set the busy timeout
SnapOpen ==
    /\ spc = "open"
    /\ \E opened \in BOOLEAN, timeoutSet \in BOOLEAN :
         IF ~opened
           THEN SnapReturnWith("OpenFailed") /\ slog' = slog
           ELSE /\ slog' = slog \cup {"connOpened"}
                /\ IF timeoutSet
                     THEN spc' = "checkpoint" /\ sResult' = sResult
                     ELSE SnapReturnWith("BusyTimeoutFailed")
    /\ UNCHANGED <<dest, sDir, sPre, backup_size, db, resolveVars>>

\* where the call goes after the checkpoint when its failure ends the call
AfterCheckpoint_Fatal(ok) == IF ok THEN "opendest" ELSE "ret"

\* main.rs 408-416: where the call goes after the checkpoint: its failure is
\* only logged ("continuing anyway")
AfterCheckpoint(ok) == "opendest"

\* main.rs 406-413: PRAGMA wal_checkpoint(RESTART)
SnapCheckpoint ==
    /\ spc = "checkpoint"
    /\ \E ok \in BOOLEAN :
         /\ slog' = IF ok THEN slog \cup {"checkpointed"}
                          ELSE slog \cup {"checkpointFailed"}
         /\ spc' = AfterCheckpoint(ok)
    /\ sResult' = IF spc' = "ret" THEN "CheckpointFailed" ELSE sResult
    /\ UNCHANGED <<dest, sDir, sPre, backup_size, db, resolveVars>>

\* main.rs 418-420: open a connection to the backup path, which creates the
\* file when there is none
SnapOpenDest ==
    /\ spc = "opendest"
    /\ \E opened \in BOOLEAN :
         IF opened
           THEN /\ dest' = [dest EXCEPT ![sDir] = IF Exists(@) THEN @ ELSE Torn]
                /\ slog' = slog \cup {"destOpened"}
                /\ spc' = "backup"
                /\ sResult' = sResult
           ELSE /\ SnapReturnWith("CreateBackupFailed")
                /\ UNCHANGED <<dest, slog>>
    /\ UNCHANGED <<sDir, sPre, backup_size, db, resolveVars>>

\* main.rs 422-436: Backup::new and run_to_completion(100 pages, 10 ms)
SnapBackup ==
    /\ spc = "backup"
    /\ \E o \in CopyOutcomes(db[sDir], dest[sDir]) :
         /\ dest' = [dest EXCEPT ![sDir] = o.dst]
         /\ IF o.ok
              THEN spc' = "verify" /\ sResult' = sResult
              ELSE SnapReturnWith("BackupFailed")
    /\ UNCHANGED <<sDir, sPre, slog, backup_size, db, resolveVars>>

\* main.rs 445: the smallest length the call accepts for the backup file
MinBackupSize == 1024

\* the lengths fs::metadata may report for the backup file: an empty file,
\* and the lengths next to MinBackupSize
BackupSizes == {0, MinBackupSize - 1, MinBackupSize, MinBackupSize + 1}

\* the size test with the limit itself rejected
TooSmall_Inclusive(size) == size <= MinBackupSize

\* main.rs 445: `backup_size < 1024`
TooSmall(size) == size < MinBackupSize

\* main.rs 438-447: stat the backup file, reject a length below the limit
SnapVerify ==
    /\ spc = "verify"
    /\ \E statOk \in BOOLEAN, size \in BackupSizes :
         IF ~statOk
           THEN SnapReturnWith("MetadataFailed") /\ UNCHANGED <<backup_size, slog>>
           ELSE /\ backup_size' = size
                /\ slog' = slog \cup {"sizeChecked"}
                /\ IF TooSmall(size)
                     THEN SnapReturnWith("TooSmall")
                     ELSE spc' = "checksum" /\ sResult' = sResult
    /\ UNCHANGED <<dest, sDir, sPre, db, resolveVars>>

\* main.rs 449-461: compute the fast checksum of the backup file (open, stat,
\* read, seek may each fail), return the descriptor {success, size, checksum}
SnapChecksum ==
    /\ spc = "checksum"
    /\ \E sumOk \in BOOLEAN :
         IF sumOk
           THEN SnapReturnWith("Ok") /\ slog' = slog \cup {"checksummed"}
           ELSE SnapReturnWith("ChecksumFailed") /\ slog' = slog
    /\ UNCHANGED <<dest, sDir, sPre, backup_size, db, resolveVars>>

\* the caller has its answer; the next command may be invoked
SnapReturn ==
    /\ spc = "ret"
    /\ spc' = "idle"
    /\ sDir' = AppData
    /\ sResult' = "none"
    /\ sPre' = dest
    /\ slog' = {}
    /\ backup_size' = 0
    /\ UNCHANGED <<dest, db, resolveVars>>

\* no snapshot call is running; no backup file exists yet
SnapIdle ==
    /\ dest = [d \in Dirs |-> Absent]
    /\ spc = "idle"
    /\ sDir = AppData
    /\ sResult = "none"
    /\ sPre = dest
    /\ slog = {}
    /\ backup_size = 0

(* ---------------------------------------------------------------------- *)
(* calculate_fast_checksum                                                *)
(* ---------------------------------------------------------------------- *)

\* A byte string is kept by its length and its non-zero bytes: nz holds the
\* pairs <<offset, value>> of the bytes that are not 0, offsets from 0.
Bytes(len, nz) == [len |-> len, nz |-> nz]

NoBytes == Bytes(0, {})

\* the byte string of a sequence of byte values
FromSeq(q) == Bytes(Len(q), { <<i - 1, q[i]>> : i \in { j \in 1..Len(q) : q[j] # 0 } })

\* hasher.update: the bytes b are appended to what was fed so far
Update(h, b) == Bytes(h.len + b.len, h.nz \cup { <<h.len + p[1], p[2]>> : p \in b.nz })

\* read_exact into a buffer of n bytes with the file position at `from`
ReadExact(f, from, n) ==
    Bytes(n, { <<p[1] - from, p[2]>> : p \in { q \in f.nz : q[1] >= from /\ q[1] < from + n } })

\* u64::to_le_bytes: the k low bytes of n, lowest first
RECURSIVE ToLeBytes(_, _)
ToLeBytes(n, k) == IF k = 0 THEN <<>> ELSE <<n % 256>> \o ToLeBytes(n \div 256, k - 1)

\* main.rs 486: a u64 has 8 bytes
SizeBytes == 8
\* main.rs 489: the length of the first window
HeadBytes == 65536
\* main.rs 496: files longer than this have their end read too
TailLimit == 131072
\* main.rs 497, 499: the length of the last window
TailBytes == 65536

\* the first window one byte short
HeadLength_Short(file_size) == IF file_size < HeadBytes - 1 THEN file_size ELSE HeadBytes - 1

\* main.rs 489: buffer_size = 65536.min(file_size as usize), usize of 64 bits
HeadLength(file_size) == IF file_size < HeadBytes THEN file_size ELSE HeadBytes

\* the end is read from a file of exactly TailLimit bytes too
ReadsTail_Inclusive(file_size) == file_size >= TailLimit

\* main.rs 496: `file_size > 131072`
ReadsTail(file_size) == file_size > TailLimit

\* the seek left out: the second read goes on where the first one stopped
TailStart_NoSeek(file_size) == HeadLength(file_size)

\* main.rs 497: seek(SeekFrom::End(-65536))
TailStart(file_size) == file_size - TailBytes

\* main.rs 483-503: the bytes fed to the hasher for file f, when no open,
\* stat, read or seek fails
Hashed(f) ==
    LET file_size == f.len
        h0 == Update(NoBytes, FromSeq(ToLeBytes(file_size, SizeBytes)))
        h1 == Update(h0, ReadExact(f, 0, HeadLength(file_size)))
    IN  IF ReadsTail(file_size)
          THEN Update(h1, ReadExact(f, TailStart(file_size), TailBytes))
          ELSE h1

\* main.rs 505: the hex form of the SHA-256 digest; distinct inputs are taken
\* to have distinct digests, so the digest is kept as the input it stands for
Sha256Hex(h) == [ok |-> TRUE, len |-> h.len, nz |-> h.nz]

\* main.rs 472-506
CalculateFastChecksum(f) == Sha256Hex(Hashed(f))

\* no checksum computed
NoSum == [ok |-> FALSE, len |-> 0, nz |-> {}]

\* the largest number of non-zero bytes in a file
MaxMarks == 1

\* file lengths at and next to the places where the function changes course
FileSizes ==
    {0, 1, HeadBytes - 1, HeadBytes, HeadBytes + 1,
     TailLimit - 1, TailLimit, TailLimit + 1, TailLimit + TailBytes}

\* the offsets of a file of n bytes at and next to the borders of the windows
Offsets(n) ==
    {0, HeadBytes - 1, HeadBytes, n - TailBytes - 1, n - TailBytes, n - 1} \cap (0..(n - 1))

\* the files of n bytes with at most MaxMarks non-zero bytes, at Offsets(n)
FilesOfSize(n) ==
    { Bytes(n, { <<o, 1>> : o \in m }) :
        m \in { x \in SUBSET Offsets(n) : Cardinality(x) <= MaxMarks } }

Files == UNION { FilesOfSize(n) : n \in FileSizes }

\* calculate_fast_checksum is called on fileA
ChecksumA ==
    /\ sumA = NoSum
    /\ sumA' = CalculateFastChecksum(fileA)
    /\ UNCHANGED <<fileA, fileB, sumB>>

\* calculate_fast_checksum is called on fileB
ChecksumB ==
    /\ sumB = NoSum
    /\ sumB' = CalculateFastChecksum(fileB)
    /\ UNCHANGED <<fileA, fileB, sumA>>

\* no checksum call has been made
SumIdle ==
    /\ fileA = NoBytes
    /\ fileB = NoBytes
    /\ sumA = NoSum
    /\ sumB = NoSum

(* ---------------------------------------------------------------------- *)
(* cleanup_restore_file                                                   *)
(* ---------------------------------------------------------------------- *)

\* the call ends with the value it returns
DelReturnWith(r) ==
    /\ dpc' = "ret"
    /\ dResult' = r

\* main.rs 678-688: the command is invoked and looks for the data directory
DelBegin ==
    /\ dpc = "idle"
    /\ rpc = "idle"
    /\ dPre' = rfile
    /\ dlog' = <<>>
    /\ IF windows
         THEN /\ ResolverCall("cleanup_restore_file")
              /\ dpc' = "resolving"
              /\ UNCHANGED <<dDir, dResult>>
         ELSE /\ \E found \in BOOLEAN, d \in Dirs :
                   IF found
                     THEN /\ dDir' = d
                          /\ dpc' = "exists"
                          /\ dResult' = dResult
                     ELSE /\ DelReturnWith("NoDataDir")
                          /\ dDir' = dDir
              /\ UNCHANGED <<rpc, rIdx, rCaller, rResult, rTried, rPassed, rLastErr>>
    /\ UNCHANGED <<rfile, scratch, dsuccess, cand, pathResult>>

\* main.rs 683: the resolver returned; `?` passes its error on
DelResolved ==
    /\ dpc = "resolving"
    /\ rpc = "ret"
    /\ rCaller = "cleanup_restore_file"
    /\ ResolverLeave
    /\ IF rResult.ok
         THEN /\ dDir' = rResult.dir
              /\ dpc' = "exists"
              /\ dResult' = dResult
         ELSE /\ DelReturnWith(rResult.tag)
              /\ dDir' = dDir
    /\ UNCHANGED <<rfile, scratch, dsuccess, dPre, dlog, cand, pathResult>>

\* main.rs 692-696, 760-764: nothing to do when the file is not there
DelCheckExists ==
    /\ dpc = "exists"
    /\ IF Exists(rfile[dDir])
         THEN /\ dpc' = "remove"
              /\ dsuccess' = FALSE
              /\ dResult' = dResult
              /\ dlog' = Append(dlog, "present")
         ELSE /\ DelReturnWith("Ok")
              /\ dsuccess' = dsuccess
              /\ dlog' = Append(dlog, "absentAtEntry")
    /\ UNCHANGED <<rfile, scratch, dDir, dPre>>

\* main.rs 699, 749-752: strategy 1, std::fs::remove_file(&file_path)
DelDirect ==
    /\ dpc = "remove"
    /\ \E o \in RemoveOutcomes(rfile[dDir]) :
         /\ rfile' = [rfile EXCEPT ![dDir] = o.dst]
         /\ IF o.ok
              THEN /\ dsuccess' = TRUE
                   /\ dpc' = "verify"
                   /\ dlog' = Append(dlog, "removed")
              ELSE /\ dsuccess' = dsuccess
                   /\ dpc' = IF windows THEN "del" ELSE "rename"
                   /\ dlog' = Append(dlog, "removeFailed")
    /\ UNCHANGED <<scratch, dDir, dResult, dPre>>

\* cmd /C del /F /Q <file>: the command cannot be run, or it ends with a
\* failure status, or it ends with status 0; del ends with status 0 whether
\* or not it removed the file
DelCommandOutcomes(f) ==
    { [ok |-> FALSE, dst |-> f],
      [ok |-> TRUE,  dst |-> Absent],
      [ok |-> TRUE,  dst |-> f] }

\* AfterForce as it would be if strategy 3 did not look at `success`
AfterForce_Always(ok) == "rename"

\* main.rs 720-723, 735: strategy 3 is guarded by `if !success`, and success
\* is set when the del command ended with status 0
AfterForce(ok) == IF ok THEN "verify" ELSE "rename"

\* main.rs 703-732: strategy 2, Windows builds only
DelForce ==
    /\ dpc = "del"
    /\ \E o \in DelCommandOutcomes(rfile[dDir]) :
         /\ rfile' = [rfile EXCEPT ![dDir] = o.dst]
         /\ dsuccess' = o.ok
         /\ dpc' = AfterForce(o.ok)
         /\ dlog' = Append(dlog, IF o.ok THEN "delOk" ELSE "delFailed")
    /\ UNCHANGED <<scratch, dDir, dResult, dPre>>

\* main.rs 735-737, 746-748: strategy 3, first half: rename the file to the
\* scratch name; when that fails the ladder is over
DelRename ==
    /\ dpc = "rename"
    /\ \E o \in RenameOutcomes(rfile[dDir], scratch[dDir]) :
         /\ rfile' = [rfile EXCEPT ![dDir] = o.src]
         /\ scratch' = [scratch EXCEPT ![dDir] = o.dst]
         /\ IF o.ok
              THEN /\ dpc' = "rmscratch"
                   /\ dResult' = dResult
                   /\ dlog' = Append(dlog, "renamed")
              ELSE /\ DelReturnWith("FailedToDelete")
                   /\ dlog' = Append(dlog, "renameFailed")
    /\ UNCHANGED <<dDir, dsuccess, dPre>>

\* main.rs 739-748: strategy 3, second half: remove the renamed file
DelRemoveScratch ==
    /\ dpc = "rmscratch"
    /\ \E o \in RemoveOutcomes(scratch[dDir]) :
         /\ scratch' = [scratch EXCEPT ![dDir] = o.dst]
         /\ IF o.ok
              THEN /\ dsuccess' = TRUE
                   /\ dpc' = "verify"
                   /\ dResult' = dResult
                   /\ dlog' = Append(dlog, "scratchRemoved")
              ELSE /\ dsuccess' = dsuccess
                   /\ DelReturnWith("FailedToDelete")
                   /\ dlog' = Append(dlog, "scratchRemoveFailed")
    /\ UNCHANGED <<rfile, dDir, dPre>>

\* what the call returns after the last look when the look is left out
AfterVerify_Trusting(exists) == "Ok"

\* main.rs 755-764: what the call returns after the last look at the path
AfterVerify(exists) == IF exists THEN "StillExists" ELSE "Ok"

\* main.rs 754-757: file_path.exists() once more
DelVerify ==
    /\ dpc = "verify"
    /\ DelReturnWith(AfterVerify(Exists(rfile[dDir])))
    /\ dlog' = Append(dlog, IF Exists(rfile[dDir]) THEN "seenPresent" ELSE "seenAbsent")
    /\ UNCHANGED <<rfile, scratch, dDir, dsuccess, dPre>>

\* the caller has its answer; the next command may be invoked
DelReturn ==
    /\ dpc = "ret"
    /\ dpc' = "idle"
    /\ dDir' = AppData
    /\ dsuccess' = FALSE
    /\ dResult' = "none"
    /\ dPre' = rfile
    /\ dlog' = <<>>
    /\ UNCHANGED <<rfile, scratch>>

\* no cleanup call is running
DeleteQuiet ==
    /\ dpc = "idle"
    /\ dDir = AppData
    /\ dsuccess = FALSE
    /\ dResult = "none"
    /\ dPre = rfile
    /\ dlog = <<>>

\* no cleanup call is running; there is no restore file and no scratch file
DeleteIdle ==
    /\ rfile = [d \in Dirs |-> Absent]
    /\ scratch = [d \in Dirs |-> Absent]
    /\ DeleteQuiet

(* ---------------------------------------------------------------------- *)
(* startup_database_restore                                               *)
(* ---------------------------------------------------------------------- *)

\* the largest number of startup_database_restore calls in a run
MaxRestores == 1

\* the call ends with the value it returns
StartReturnWith(r) ==
    /\ upc' = "ret"
    /\ uResult' = r

\* main.rs 341-351: the command is invoked with the bytes to restore and
\* looks for the data directory
StartBegin ==
    /\ upc = "idle"
    /\ rpc = "idle"
    /\ uCalls < MaxRestores
    /\ uCalls' = uCalls + 1
    /\ uPre' = db
    /\ \E data \in Data : uData' = data
    /\ IF windows
         THEN /\ ResolverCall("startup_database_restore")
              /\ upc' = "resolving"
              /\ UNCHANGED <<uDir, uResult>>
         ELSE /\ \E found \in BOOLEAN, d \in Dirs :
                   IF found
                     THEN /\ uDir' = d
                          /\ upc' = "exists"
                          /\ uResult' = uResult
                     ELSE /\ StartReturnWith("NoDataDir")
                          /\ uDir' = uDir
              /\ UNCHANGED <<rpc, rIdx, rCaller, rResult, rTried, rPassed, rLastErr>>
    /\ UNCHANGED <<db, prb, cand, pathResult>>

\* main.rs 346: the resolver returned; `?` passes its error on
StartResolved ==
    /\ upc = "resolving"
    /\ rpc = "ret"
    /\ rCaller = "startup_database_restore"
    /\ ResolverLeave
    /\ IF rResult.ok
         THEN /\ uDir' = rResult.dir
              /\ upc' = "exists"
              /\ uResult' = uResult
         ELSE /\ StartReturnWith(rResult.tag)
              /\ uDir' = uDir
    /\ UNCHANGED <<db, prb, uData, uPre, uCalls, cand, pathResult>>

\* main.rs 353-356: the safety backup is made only of a database that exists
StartCheckExists ==
    /\ upc = "exists"
    /\ upc' = IF Exists(db[uDir]) THEN "copy" ELSE "write"
    /\ UNCHANGED <<db, prb, uDir, uData, uResult, uPre, uCalls>>

\* where the call goes after the safety copy when its error is dropped
AfterSafetyCopy_Ignored(ok) == "write"

\* main.rs 359-360: where the call goes after the safety copy; `?` returns
\* its error
AfterSafetyCopy(ok) == IF ok THEN "write" ELSE "ret"

\* main.rs 357-361: std::fs::copy(&db_path, &backup_path)
StartSafetyCopy ==
    /\ upc = "copy"
    /\ \E o \in CopyOutcomes(db[uDir], prb[uDir]) :
         /\ prb' = [prb EXCEPT ![uDir] = o.dst]
         /\ upc' = AfterSafetyCopy(o.ok)
         /\ uResult' = IF upc' = "ret" THEN "SafetyCopyFailed" ELSE uResult
    /\ UNCHANGED <<db, uDir, uData, uPre, uCalls>>

\* main.rs 364-369: std::fs::write(&db_path, backup_data)
StartWrite ==
    /\ upc = "write"
    /\ \E o \in WriteOutcomes(db[uDir], uData) :
         /\ db' = [db EXCEPT ![uDir] = o.dst]
         /\ StartReturnWith(IF o.ok THEN "Ok" ELSE "WriteFailed")
    /\ UNCHANGED <<prb, uDir, uData, uPre, uCalls>>

\* the caller has its answer; the next command may be invoked
StartReturn ==
    /\ upc = "ret"
    /\ upc' = "idle"
    /\ uDir' = AppData
    /\ uData' = 1
    /\ uResult' = "none"
    /\ uPre' = db
    /\ UNCHANGED <<db, prb, uCalls>>

\* no startup restore is running or has run; no safety backup exists yet
StartupIdle ==
    /\ prb = [d \in Dirs |-> Absent]
    /\ upc = "idle"
    /\ uDir = AppData
    /\ uData = 1
    /\ uResult = "none"
    /\ uPre = db
    /\ uCalls = 0

(* ---------------------------------------------------------------------- *)
(* close_database_connections                                             *)
(* ---------------------------------------------------------------------- *)

\* main.rs 133-160: the statements run on the connection, in program order
Statements ==
    << "BEGIN IMMEDIATE; COMMIT;",
       "PRAGMA wal_checkpoint(TRUNCATE);",
       "PRAGMA wal_checkpoint(RESTART);",
       "PRAGMA vacuum;",
       "PRAGMA wal_checkpoint(FULL);" >>

\* one entry of the history of a call
Ran(stmt, ok) == [stmt |-> stmt, ok |-> ok]

\* main.rs 103-124: the command is invoked; APPDATA / HOME is looked up
CloseBegin ==
    /\ cpc = "idle"
    /\ \E envOk \in BOOLEAN :
         IF envOk
           THEN cpc' = "open" /\ cResult' = cResult
           ELSE cpc' = "ret" /\ cResult' = "EnvMissing"
    /\ clog' = <<>>
    /\ UNCHANGED <<cIdx, cConn>>

\* main.rs 126-131, 169-173: when store.db exists, open a connection to it; a
\* failure is only logged
CloseOpen ==
    /\ cpc = "open"
    /\ IF ~Exists(target)
         THEN cpc' = "sleep" /\ UNCHANGED <<cIdx, cConn, clog>>
         ELSE \E opened \in BOOLEAN :
                /\ clog' = Append(clog, Ran("open", opened))
                /\ cConn' = opened
                /\ cIdx' = 1
                /\ cpc' = IF opened THEN "execute" ELSE "sleep"
    /\ UNCHANGED cResult

\* StopsAt as it would be if the error of a statement ended the sequence
StopsAt_Error(idx, ok) == ~ok \/ idx = Len(Statements)

\* main.rs 133-163: both arms of every match only print, so the sequence ends
\* with its last statement and nowhere else
StopsAt(idx, ok) == idx = Len(Statements)

\* main.rs 133-163: conn.execute of the statement the call is at; its error
\* is only logged, the next statement follows
CloseExecute ==
    /\ cpc = "execute"
    /\ \E ok \in BOOLEAN :
         /\ clog' = Append(clog, Ran(Statements[cIdx], ok))
         /\ IF StopsAt(cIdx, ok)
              THEN cIdx' = cIdx /\ cpc' = "drop"
              ELSE cIdx' = cIdx + 1 /\ cpc' = cpc
    /\ UNCHANGED <<cConn, cResult>>

\* main.rs 165-167: drop(conn)
CloseDrop ==
    /\ cpc = "drop"
    /\ cConn' = FALSE
    /\ cpc' = "sleep"
    /\ UNCHANGED <<cIdx, cResult, clog>>

\* main.rs 175-179: sleep 500 ms, return Ok(())
CloseFinish ==
    /\ cpc = "sleep"
    /\ cpc' = "ret"
    /\ cResult' = "Ok"
    /\ UNCHANGED <<cIdx, cConn, clog>>

\* the caller has its answer; the next command may be invoked
CloseReturn ==
    /\ cpc = "ret"
    /\ cpc' = "idle"
    /\ cIdx' = 1
    /\ cResult' = "none"
    /\ clog' = <<>>
    /\ UNCHANGED cConn

\* no close_database_connections call is running
CloseIdle ==
    /\ cpc = "idle"
    /\ cIdx = 1
    /\ cConn = FALSE
    /\ cResult = "none"
    /\ clog = <<>>

(* ---------------------------------------------------------------------- *)
(* restart_application, windows_restart_application                       *)
(* ---------------------------------------------------------------------- *)

\* the amount by which the clock advances in one step
TickMs == 250
\* the time up to which the clock is followed
MaxTime == 3000

\* main.rs 550: delay_ms.unwrap_or(1000)
DefaultDelayMs == 1000
\* main.rs 607: the sleep of the thread of a build that is not for Windows
PlainExitDelayMs == 2000
\* main.rs 571: the sleep between starting the new instance and exit(0)
LingerMs == 500

\* main.rs 603, 550, 607: the delay of the restart that restart_application
\* schedules; it calls windows_restart_application with None
RestartDelay == IF windows THEN DefaultDelayMs ELSE PlainExitDelayMs

\* std::process::exit(code)
Exit(code) ==
    /\ alive' = FALSE
    /\ exitCode' = code
    /\ tpc' = "exited"

\* restart_application returns only once the thread it spawned has slept
ReturnReady_Joined == now >= tWake

\* main.rs 592-594, 609-610: nothing stands between thread::spawn and Ok(())
ReturnReady == TRUE

\* main.rs 598-609, 547-553: the command is invoked and spawns the thread,
\* which starts to sleep
RestartSchedule ==
    /\ alive
    /\ qpc = "idle"
    /\ tpc = "none"
    /\ qpc' = "spawned"
    /\ tpc' = "sleep"
    /\ scheduledAt' = now
    /\ tWake' = now + RestartDelay
    /\ UNCHANGED <<now, alive, exitCode, qResult, returnedAt>>

\* main.rs 594, 610: Ok(())
RestartReturn ==
    /\ alive
    /\ qpc = "spawned"
    /\ ReturnReady
    /\ qpc' = "ret"
    /\ qResult' = "Ok"
    /\ returnedAt' = now
    /\ UNCHANGED <<now, alive, exitCode, tpc, tWake, scheduledAt>>

\* main.rs 554, 607-608: thread::sleep is over once the delay has passed; a
\* build that is not for Windows exits, a Windows build goes on
ThreadWake ==
    /\ alive
    /\ tpc = "sleep"
    /\ now >= tWake
    /\ IF windows
         THEN tpc' = "exe" /\ UNCHANGED <<alive, exitCode>>
         ELSE Exit(0)
    /\ UNCHANGED <<now, qpc, qResult, tWake, scheduledAt, returnedAt>>

\* main.rs 557, 587-590: std::env::current_exe()
ThreadCurrentExe ==
    /\ alive
    /\ tpc = "exe"
    /\ \E ok \in BOOLEAN :
         IF ok THEN tpc' = "spawn" /\ UNCHANGED <<alive, exitCode>>
               ELSE Exit(1)
    /\ UNCHANGED <<now, qpc, qResult, tWake, scheduledAt, returnedAt>>

\* SpawnFailed as it would be if the Err arm only printed: the closure ends,
\* the process goes on
SpawnFailed_Printed ==
    /\ tpc' = "ended"
    /\ UNCHANGED <<alive, exitCode>>

\* main.rs 574-577: the new instance could not be started: exit(1)
SpawnFailed == Exit(1)

\* main.rs 567-577: Command::new(&exe_path).spawn(); the thread then sleeps
\* before it exits, or exits at once with status 1
ThreadSpawn ==
    /\ alive
    /\ tpc = "spawn"
    /\ \E ok \in BOOLEAN :
         IF ok THEN /\ tpc' = "linger"
                    /\ tWake' = now + LingerMs
                    /\ UNCHANGED <<alive, exitCode>>
               ELSE SpawnFailed /\ tWake' = tWake
    /\ UNCHANGED <<now, qpc, qResult, scheduledAt, returnedAt>>

\* main.rs 571-572: the sleep is over, exit(0)
ThreadLinger ==
    /\ alive
    /\ tpc = "linger"
    /\ now >= tWake
    /\ Exit(0)
    /\ UNCHANGED <<now, qpc, qResult, tWake, scheduledAt, returnedAt>>

\* the thread is in a thread::sleep that is not over yet
Sleeping == tpc \in {"sleep", "linger"} /\ now < tWake

\* time passes. A call that is ready to return does so first: the statements
\* between thread::spawn and the return take no time on this scale. Past
\* MaxTime the clock is followed only to the end of a sleep that has begun
Tick ==
    /\ alive
    /\ ~(qpc = "spawned" /\ ReturnReady)
    /\ now + TickMs <= MaxTime \/ Sleeping
    /\ now' = now + TickMs
    /\ UNCHANGED <<alive, exitCode, qpc, qResult, tpc, tWake, scheduledAt, returnedAt>>

\* the process has just started; no restart is scheduled
RestartIdle ==
    /\ now = 0
    /\ alive = TRUE
    /\ exitCode = 0
    /\ qpc = "idle"
    /\ qResult = "none"
    /\ tpc = "none"
    /\ tWake = 0
    /\ scheduledAt = 0
    /\ returnedAt = 0

(* ---------------------------------------------------------------------- *)
(* Specification of the replace engine                                    *)
(* ---------------------------------------------------------------------- *)

notReplace ==
    <<windows, calls, sideVars, resolveVars, snapVars, sumVars, delVars, startVars, closeVars,
      restartVars>>

\* no replace call is running; no temp or backup file exists yet
ReplaceIdle ==
    /\ tmp = Absent
    /\ bak = Absent
    /\ pc = "idle"
    /\ attempt = 1
    /\ success = FALSE
    /\ backup_data = 1
    /\ result = "none"
    /\ pre = Absent
    /\ log = {}
    /\ tries = <<>>

(* ---------------------------------------------------------------------- *)
(* restore_wal_file, restore_shm_file                                     *)
(* ---------------------------------------------------------------------- *)

\* the db_path strings the commands are called with: the database path and,
\* the argument being any string of the caller, a path that itself ends like
\* a side file
DbPaths == {"store.db", "store.db-wal"}

\* ShmPath as it would be with the suffix of the other command
ShmPath_Wal(p) == p \o "-wal"

\* main.rs 512: format!("{}-wal", db_path)
WalPath(p) == p \o "-wal"

\* main.rs 531: format!("{}-shm", db_path)
ShmPath(p) == p \o "-shm"

\* the paths of the model: the db_path strings and the side files of each
SidePaths == DbPaths \cup {p \o s : p \in DbPaths, s \in {"-wal", "-shm"}}

\* the call ends with the write: what it returns, and what it was called with
SideDone(kind, p, n, ok) ==
    /\ kpc' = "ret"
    /\ kKind' = kind
    /\ kPath' = p
    /\ kData' = n
    /\ kResult' = IF ok THEN "Ok" ELSE "Failed"
    /\ kPre' = files

\* main.rs 509-525: restore_wal_file(backup_data, db_path): one std::fs::write
\* to the WAL path
RestoreWal ==
    /\ kpc = "idle"
    /\ \E p \in DbPaths, n \in Data :
         \E o \in WriteOutcomes(files[WalPath(p)], n) :
            /\ files' = [files EXCEPT ![WalPath(p)] = o.dst]
            /\ SideDone("wal", p, n, o.ok)

\* main.rs 528-544: restore_shm_file(backup_data, db_path): one std::fs::write
\* to the SHM path
RestoreShm ==
    /\ kpc = "idle"
    /\ \E p \in DbPaths, n \in Data :
         \E o \in WriteOutcomes(files[ShmPath(p)], n) :
            /\ files' = [files EXCEPT ![ShmPath(p)] = o.dst]
            /\ SideDone("shm", p, n, o.ok)

\* the caller has its answer; the next command may be invoked
SideReturn ==
    /\ kpc = "ret"
    /\ kpc' = "idle"
    /\ kKind' = "none"
    /\ kPath' = "store.db"
    /\ kData' = 1
    /\ kResult' = "none"
    /\ kPre' = files
    /\ UNCHANGED files

\* no side-file command is running; the database file exists, no side file
\* has been restored
SideIdle ==
    /\ kpc = "idle"
    /\ kKind = "none"
    /\ kPath = "store.db"
    /\ kData = 1
    /\ kResult = "none"
    /\ files = [p \in SidePaths |-> IF p = "store.db" THEN Whole(1) ELSE Absent]
    /\ kPre = files

(* ---------------------------------------------------------------------- *)
(* atomic_database_replace invoked twice at the same time: the commands   *)
(* are async and run on the threads of the runtime; the two calls have    *)
(* their own locals and share the three paths                             *)
(* ---------------------------------------------------------------------- *)

\* the two calls; call p is given the bytes numbered p
Procs == {1, 2}

\* call p takes the locals r
Upd(p, r) == calls' = [calls EXCEPT ![p] = r]

\* call p returns v
Ret(p, v) == [calls[p] EXCEPT !.pc = "ret", !.result = v]

\* main.rs 183-201: call p is invoked; APPDATA / HOME is looked up
CoBegin(p) ==
    /\ calls[p].pc = "idle"
    /\ \E envOk \in BOOLEAN :
         Upd(p, IF envOk THEN [calls[p] EXCEPT !.pc = "write"]
                         ELSE Ret(p, "EnvMissing"))
    /\ UNCHANGED <<db, tmp, bak>>

\* main.rs 207-208, 213, 229: call p writes its data to the temporary file
CoWriteTemp(p) ==
    /\ calls[p].pc = "write"
    /\ \E o \in WriteOutcomes(tmp, calls[p].data) :
         /\ tmp' = o.dst
         /\ Upd(p, IF o.ok THEN [calls[p] EXCEPT !.pc = AfterStaged]
                           ELSE Ret(p, "WriteTempFailed"))
    /\ UNCHANGED <<db, bak>>

\* windows_support.rs 129-134: copy the target to the backup path
CoWinBackup(p) ==
    /\ calls[p].pc = "w_backup"
    /\ IF Exists(target)
         THEN \E o \in CopyOutcomes(target, bak) :
                /\ bak' = o.dst
                /\ Upd(p, IF o.ok THEN [calls[p] EXCEPT !.pc = "w_rename"]
                                  ELSE Ret(p, "BackupFailed"))
         ELSE /\ Upd(p, [calls[p] EXCEPT !.pc = "w_rename"])
              /\ bak' = bak
    /\ UNCHANGED <<db, tmp>>

\* windows_support.rs 137-143: rename the source onto the target
CoWinRename(p) ==
    /\ calls[p].pc = "w_rename"
    /\ \E o \in RenameOutcomes(tmp, target) :
         /\ tmp' = o.src
         /\ db' = SetTarget(o.dst)
         /\ Upd(p, [calls[p] EXCEPT !.success = o.ok,
                                    !.pc = IF o.ok THEN "w_finish" ELSE "w_copy"])
    /\ bak' = bak

\* windows_support.rs 144-150, 171-173: copy the source onto the target
CoWinCopy(p) ==
    /\ calls[p].pc = "w_copy"
    /\ \E o \in CopyOutcomes(tmp, target) :
         /\ db' = SetTarget(o.dst)
         /\ Upd(p, IF o.ok THEN [calls[p] EXCEPT !.pc = "w_rmsrc", !.attempt = 1]
                           ELSE Ret(p, "CopyFailed"))
    /\ UNCHANGED <<tmp, bak>>

\* windows_support.rs 152-169: remove the source, up to three attempts
CoWinRemoveSource(p) ==
    /\ calls[p].pc = "w_rmsrc"
    /\ \E o \in RemoveOutcomes(tmp) :
         /\ tmp' = o.dst
         /\ Upd(p, IF o.ok \/ calls[p].attempt = CleanupAttempts
                     THEN [calls[p] EXCEPT !.success = TRUE, !.pc = "w_finish"]
                     ELSE [calls[p] EXCEPT !.attempt = @ + 1])
    /\ UNCHANGED <<db, bak>>

\* windows_support.rs 177-187, main.rs 217-225: report success, or copy the
\* backup onto the target and report failure
CoWinFinish(p) ==
    /\ calls[p].pc = "w_finish"
    /\ IF calls[p].success
         THEN Upd(p, Ret(p, "Ok")) /\ db' = db
         ELSE /\ Upd(p, Ret(p, "ReplaceFailed"))
              /\ IF Exists(bak)
                   THEN \E o \in CopyOutcomes(bak, target) : db' = SetTarget(o.dst)
                   ELSE db' = db
    /\ UNCHANGED <<tmp, bak>>

\* main.rs 232-238: remove an old backup file if there is one
CoGenRemoveOldBackup(p) ==
    /\ calls[p].pc = "g_rmold"
    /\ IF Exists(bak)
         THEN \E o \in RemoveOutcomes(bak) : bak' = o.dst
         ELSE bak' = bak
    /\ Upd(p, [calls[p] EXCEPT !.pc = "g_mvold", !.attempt = 1, !.success = FALSE])
    /\ UNCHANGED <<db, tmp>>

\* main.rs 240-255: rename the database to the backup path, three attempts
CoGenMoveOld(p) ==
    /\ calls[p].pc = "g_mvold"
    /\ \E o \in RenameOutcomes(target, bak) :
         /\ db' = SetTarget(o.src)
         /\ bak' = o.dst
         /\ Upd(p, IF o.ok
                     THEN [calls[p] EXCEPT !.success = TRUE, !.pc = "g_move", !.attempt = 1]
                   ELSE IF calls[p].attempt < MoveOldAttempts
                     THEN [calls[p] EXCEPT !.attempt = @ + 1]
                   ELSE [calls[p] EXCEPT !.pc = "g_copy"])
    /\ tmp' = tmp

\* main.rs 257-263: copy the database to the backup path; `?` on failure
CoGenCopyOld(p) ==
    /\ calls[p].pc = "g_copy"
    /\ \E o \in CopyOutcomes(target, bak) :
         /\ bak' = o.dst
         /\ Upd(p, IF o.ok THEN [calls[p] EXCEPT !.pc = "g_del", !.attempt = 1]
                           ELSE Ret(p, "BackupFailed"))
    /\ UNCHANGED <<db, tmp>>

\* main.rs 265-285: delete the database, up to five attempts
CoGenDelete(p) ==
    /\ calls[p].pc = "g_del"
    /\ \E o \in RemoveOutcomes(target) :
         /\ db' = SetTarget(o.dst)
         /\ Upd(p, IF o.ok
                     THEN [calls[p] EXCEPT !.success = TRUE, !.pc = "g_move", !.attempt = 1]
                   ELSE IF calls[p].attempt < DeleteAttempts
                     THEN [calls[p] EXCEPT !.attempt = @ + 1]
                   ELSE Ret(p, "RemoveFailed"))
    /\ UNCHANGED <<tmp, bak>>

\* main.rs 288-295, 304-308: rename the temp file to the database path, for
\* attempt in 1..=5
CoGenMove(p) ==
    /\ calls[p].pc = "g_move"
    /\ \E o \in RenameOutcomes(tmp, target) :
         /\ tmp' = o.src
         /\ db' = SetTarget(o.dst)
         /\ Upd(p, IF o.ok THEN [calls[p] EXCEPT !.pc = "g_cleanup"]
                   ELSE IF RetriesMove(calls[p].attempt)
                     THEN [calls[p] EXCEPT !.attempt = @ + 1]
                   ELSE [calls[p] EXCEPT !.pc = "g_rollback"])
    /\ bak' = bak

\* main.rs 296-302: remove the backup file (result ignored) and return Ok
CoGenCleanup(p) ==
    /\ calls[p].pc = "g_cleanup"
    /\ IF Exists(bak)
         THEN \E o \in RemoveOutcomes(bak) : bak' = o.dst
         ELSE bak' = bak
    /\ Upd(p, Ret(p, "Ok"))
    /\ UNCHANGED <<db, tmp>>

\* main.rs 309-315: rename the backup back to the database path (result
\* ignored) and return the error
CoGenRollback(p) ==
    /\ calls[p].pc = "g_rollback"
    /\ IF Exists(bak)
         THEN \E o \in RenameOutcomes(bak, target) :
                /\ bak' = o.src
                /\ db' = SetTarget(o.dst)
         ELSE UNCHANGED <<db, bak>>
    /\ Upd(p, Ret(p, "MoveFailed"))
    /\ tmp' = tmp

\* neither of the two calls has been invoked
ConcIdle ==
    calls = [p \in Procs |-> [pc |-> "idle", attempt |-> 1, success |-> FALSE,
                              data |-> p, result |-> "none"]]

\* main.rs 767-886: main() settles on one directory d0, creates it
\* (create_dir_all) and creates store.db in it by opening a connection
Started(d0, n) ==
    /\ db = [d \in Dirs |-> IF d = d0 THEN Whole(n) ELSE Absent]
    /\ cand[d0] = "dir"

Init ==
    /\ windows \in BOOLEAN
    /\ \E d0 \in Dirs, n \in Data :
         /\ cand = [d \in Dirs |-> IF d = d0 THEN "dir" ELSE "nodir"]
         /\ Started(d0, n)
    /\ ReplaceIdle
    /\ ResolveIdle
    /\ SnapIdle
    /\ SumIdle
    /\ DeleteIdle
    /\ StartupIdle
    /\ CloseIdle
    /\ RestartIdle
    /\ SideIdle
    /\ ConcIdle

Next ==
    \/ ReplaceBegin /\ UNCHANGED notReplace
    \/ WriteTemp /\ UNCHANGED notReplace
    \/ WinBackup /\ UNCHANGED notReplace
    \/ WinRename /\ UNCHANGED notReplace
    \/ WinCopy /\ UNCHANGED notReplace
    \/ WinRemoveSource /\ UNCHANGED notReplace
    \/ WinFinish /\ UNCHANGED notReplace
    \/ GenRemoveOldBackup /\ UNCHANGED notReplace
    \/ GenMoveOld /\ UNCHANGED notReplace
    \/ GenCopyOld /\ UNCHANGED notReplace
    \/ GenDelete /\ UNCHANGED notReplace
    \/ GenMove /\ UNCHANGED notReplace
    \/ GenCleanup /\ UNCHANGED notReplace
    \/ GenRollback /\ UNCHANGED notReplace
    \/ ReplaceReturn /\ UNCHANGED notReplace

Spec == Init /\ [][Next]_vars

\* a call of atomic_database_replace is running
InCall == pc \notin {"idle", "ret"}

\* the steps of a call that is running: the command runs on a thread of the
\* async runtime, every file-system call and every sleep of it returns
ReplaceRuns == InCall /\ Next

\* Spec with a running call never left waiting for ever
ReplaceFairSpec == Spec /\ WF_vars(ReplaceRuns)

(* ---------------------------------------------------------------------- *)
(* Specification of the directory resolver                                *)
(* ---------------------------------------------------------------------- *)

notResolve ==
    <<windows, calls, sideVars, replaceVars, snapVars, sumVars, delVars, startVars, closeVars,
      restartVars>>

ResolveNext ==
    \/ GetDatabasePath /\ UNCHANGED notResolve
    \/ Strategy /\ UNCHANGED notResolve
    \/ GetDatabasePathReturn /\ UNCHANGED notResolve

\* as Init, with the other candidate directories present or not
ResolveInit ==
    /\ windows \in BOOLEAN
    /\ \E d0 \in Dirs, n \in Data :
         /\ cand \in [Dirs -> {"nodir", "dir"}]
         /\ Started(d0, n)
    /\ ReplaceIdle
    /\ ResolveIdle
    /\ SnapIdle
    /\ SumIdle
    /\ DeleteIdle
    /\ StartupIdle
    /\ CloseIdle
    /\ RestartIdle
    /\ SideIdle
    /\ ConcIdle

ResolveSpec == ResolveInit /\ [][ResolveNext]_vars

(* ---------------------------------------------------------------------- *)
(* Specification of the snapshot engine                                   *)
(* ---------------------------------------------------------------------- *)

notSnapshot ==
    <<windows, calls, sideVars, tmp, bak, pc, attempt, success, backup_data, result, pre, log, tries,
      sumVars, delVars, startVars,
      closeVars, restartVars>>

SnapshotNext ==
    \/ SnapBegin /\ UNCHANGED notSnapshot
    \/ Strategy /\ UNCHANGED <<notSnapshot, db, snapVars>>
    \/ SnapResolved /\ UNCHANGED notSnapshot
    \/ SnapCheckExists /\ UNCHANGED notSnapshot
    \/ SnapOpen /\ UNCHANGED notSnapshot
    \/ SnapCheckpoint /\ UNCHANGED notSnapshot
    \/ SnapOpenDest /\ UNCHANGED notSnapshot
    \/ SnapBackup /\ UNCHANGED notSnapshot
    \/ SnapVerify /\ UNCHANGED notSnapshot
    \/ SnapChecksum /\ UNCHANGED notSnapshot
    \/ SnapReturn /\ UNCHANGED notSnapshot

SnapshotSpec == Init /\ [][SnapshotNext]_vars

(* ---------------------------------------------------------------------- *)
(* Specification of the fast checksum                                     *)
(* ---------------------------------------------------------------------- *)

notSum ==
    <<windows, calls, sideVars, replaceVars, resolveVars, snapVars, delVars, startVars, closeVars,
      restartVars>>

ChecksumNext ==
    \/ ChecksumA /\ UNCHANGED notSum
    \/ ChecksumB /\ UNCHANGED notSum

\* two files are given; the function reads nothing else, the rest of the
\* state is as main() leaves it
ChecksumInit ==
    /\ windows = FALSE
    /\ cand = [d \in Dirs |-> IF d = AppData THEN "dir" ELSE "nodir"]
    /\ Started(AppData, 1)
    /\ ReplaceIdle
    /\ ResolveIdle
    /\ SnapIdle
    /\ DeleteIdle
    /\ StartupIdle
    /\ CloseIdle
    /\ RestartIdle
    /\ SideIdle
    /\ ConcIdle
    /\ fileA \in Files
    /\ fileB \in Files
    /\ sumA = NoSum
    /\ sumB = NoSum

ChecksumSpec == ChecksumInit /\ [][ChecksumNext]_vars

(* ---------------------------------------------------------------------- *)
(* Specification of the restore file cleanup                              *)
(* ---------------------------------------------------------------------- *)

notDelete ==
    <<windows, calls, sideVars, replaceVars, snapVars, sumVars, startVars, closeVars, restartVars>>

DeleteNext ==
    \/ DelBegin /\ UNCHANGED notDelete
    \/ Strategy /\ UNCHANGED <<notDelete, delVars>>
    \/ DelResolved /\ UNCHANGED notDelete
    \/ DelCheckExists /\ UNCHANGED <<notDelete, resolveVars>>
    \/ DelDirect /\ UNCHANGED <<notDelete, resolveVars>>
    \/ DelForce /\ UNCHANGED <<notDelete, resolveVars>>
    \/ DelRename /\ UNCHANGED <<notDelete, resolveVars>>
    \/ DelRemoveScratch /\ UNCHANGED <<notDelete, resolveVars>>
    \/ DelVerify /\ UNCHANGED <<notDelete, resolveVars>>
    \/ DelReturn /\ UNCHANGED <<notDelete, resolveVars>>

\* as Init, with a restore file written into the data directory of main()
DeleteInit ==
    /\ windows \in BOOLEAN
    /\ \E d0 \in Dirs, n \in Data :
         /\ cand = [d \in Dirs |-> IF d = d0 THEN "dir" ELSE "nodir"]
         /\ Started(d0, 1)
         /\ rfile = [d \in Dirs |-> IF d = d0 THEN Whole(n) ELSE Absent]
    /\ scratch = [d \in Dirs |-> Absent]
    /\ DeleteQuiet
    /\ ReplaceIdle
    /\ ResolveIdle
    /\ SnapIdle
    /\ SumIdle
    /\ StartupIdle
    /\ CloseIdle
    /\ RestartIdle
    /\ SideIdle
    /\ ConcIdle

DeleteSpec == DeleteInit /\ [][DeleteNext]_vars

(* ---------------------------------------------------------------------- *)
(* Specification of the restore at startup                                *)
(* ---------------------------------------------------------------------- *)

notStartup ==
    <<windows, calls, sideVars, tmp, bak, pc, attempt, success, backup_data, result, pre, log,
      tries, snapVars, sumVars, delVars, closeVars, restartVars>>

StartupNext ==
    \/ StartBegin /\ UNCHANGED notStartup
    \/ Strategy /\ UNCHANGED <<notStartup, db, startVars>>
    \/ StartResolved /\ UNCHANGED notStartup
    \/ StartCheckExists /\ UNCHANGED <<notStartup, resolveVars>>
    \/ StartSafetyCopy /\ UNCHANGED <<notStartup, resolveVars>>
    \/ StartWrite /\ UNCHANGED <<notStartup, resolveVars>>
    \/ StartReturn /\ UNCHANGED <<notStartup, resolveVars>>

StartupSpec == Init /\ [][StartupNext]_vars

(* ---------------------------------------------------------------------- *)
(* Specification of the commands that checkpoint the write-ahead log      *)
(* ---------------------------------------------------------------------- *)

notClose ==
    <<windows, calls, sideVars, replaceVars, resolveVars, snapVars, sumVars, delVars, startVars,
      restartVars>>

\* create_consistent_backup and close_database_connections share no state;
\* their calls are taken one at a time
CheckpointNext ==
    \/ cpc = "idle" /\ SnapshotNext /\ UNCHANGED closeVars
    \/ spc = "idle" /\ rpc = "idle" /\ CloseBegin /\ UNCHANGED notClose
    \/ CloseOpen /\ UNCHANGED notClose
    \/ CloseExecute /\ UNCHANGED notClose
    \/ CloseDrop /\ UNCHANGED notClose
    \/ CloseFinish /\ UNCHANGED notClose
    \/ CloseReturn /\ UNCHANGED notClose

CheckpointSpec == Init /\ [][CheckpointNext]_vars

(* ---------------------------------------------------------------------- *)
(* Specification of the restart                                           *)
(* ---------------------------------------------------------------------- *)

notRestart ==
    <<windows, calls, sideVars, replaceVars, resolveVars, snapVars, sumVars, delVars, startVars,
      closeVars>>

RestartNext ==
    \/ RestartSchedule /\ UNCHANGED notRestart
    \/ RestartReturn /\ UNCHANGED notRestart
    \/ ThreadWake /\ UNCHANGED notRestart
    \/ ThreadCurrentExe /\ UNCHANGED notRestart
    \/ ThreadSpawn /\ UNCHANGED notRestart
    \/ ThreadLinger /\ UNCHANGED notRestart
    \/ Tick /\ UNCHANGED notRestart

RestartSpec == Init /\ [][RestartNext]_vars

\* the steps of the background thread
ThreadRuns ==
    (ThreadWake \/ ThreadCurrentExe \/ ThreadSpawn \/ ThreadLinger)
        /\ UNCHANGED notRestart

\* the command returns to its caller, and time passes
TimePasses == (RestartReturn \/ Tick) /\ UNCHANGED notRestart

\* RestartSpec with a background thread that keeps being scheduled by the
\* operating system, and a clock that does not stop
RestartFairSpec == RestartSpec /\ WF_vars(ThreadRuns) /\ WF_vars(TimePasses)

(* ---------------------------------------------------------------------- *)
(* Specification of the side-file commands                                *)
(* ---------------------------------------------------------------------- *)

notSide ==
    <<windows, calls, replaceVars, resolveVars, snapVars, sumVars, delVars, startVars,
      closeVars, restartVars>>

SideNext ==
    \/ RestoreWal /\ UNCHANGED notSide
    \/ RestoreShm /\ UNCHANGED notSide
    \/ SideReturn /\ UNCHANGED notSide

SideSpec == Init /\ [][SideNext]_vars

(* ---------------------------------------------------------------------- *)
(* Specification of two replace calls that are not serialized             *)
(* ---------------------------------------------------------------------- *)

notConc ==
    <<windows, pc, attempt, success, backup_data, result, pre, log, tries,
      resolveVars, snapVars, sumVars, delVars, startVars, closeVars,
      restartVars, sideVars>>

ConcNext ==
    \/ \E p \in Procs : CoBegin(p) /\ UNCHANGED notConc
    \/ \E p \in Procs : CoWriteTemp(p) /\ UNCHANGED notConc
    \/ \E p \in Procs : CoWinBackup(p) /\ UNCHANGED notConc
    \/ \E p \in Procs : CoWinRename(p) /\ UNCHANGED notConc
    \/ \E p \in Procs : CoWinCopy(p) /\ UNCHANGED notConc
    \/ \E p \in Procs : CoWinRemoveSource(p) /\ UNCHANGED notConc
    \/ \E p \in Procs : CoWinFinish(p) /\ UNCHANGED notConc
    \/ \E p \in Procs : CoGenRemoveOldBackup(p) /\ UNCHANGED notConc
    \/ \E p \in Procs : CoGenMoveOld(p) /\ UNCHANGED notConc
    \/ \E p \in Procs : CoGenCopyOld(p) /\ UNCHANGED notConc
    \/ \E p \in Procs : CoGenDelete(p) /\ UNCHANGED notConc
    \/ \E p \in Procs : CoGenMove(p) /\ UNCHANGED notConc
    \/ \E p \in Procs : CoGenCleanup(p) /\ UNCHANGED notConc
    \/ \E p \in Procs : CoGenRollback(p) /\ UNCHANGED notConc

ConcSpec == Init /\ [][ConcNext]_vars

(* ---------------------------------------------------------------------- *)
(* Properties of the replace engine                                       *)
(* ---------------------------------------------------------------------- *)

Returned == pc = "ret"
NewFile == Whole(backup_data)

\* C1: while a replace runs on a target that existed before the call, the
\* target path holds the complete old or the complete new content; the only
\* exception is the gap between removal and rename on the fallback path that
\* is entered after an atomic rename of the temp file onto the target was
\* attempted and failed.
C1_NoMissingWindow ==
    (InCall /\ Exists(pre)) =>
        \/ target \in {pre, NewFile}
        \/ /\ "renameOnto" \in log
           /\ pc = "g_move"
           /\ target = Absent

\* C2: when replace returns an error for a target that existed before the
\* call, a file exists at the target path, whichever steps failed (the
\* rollback included).
C2_ErrorLeavesFile ==
    (Returned /\ result # "Ok" /\ Exists(pre)) => Exists(target)

\* C3: when replace fails because the final step that puts the new file at
\* the target path failed on all its attempts, the target holds its pre-call
\* content when the error is returned.
C3_FinalStepFailureRestores ==
    (Returned /\ result \in {"MoveFailed", "CopyFailed"} /\ Exists(pre)) =>
        target = pre

\* C4: when the copy of the existing target to the backup path fails, replace
\* returns its error at once: no destructive step is performed and the target
\* still exists with its pre-call content.
C4_BackupCopyFailureAborts ==
    ("backupCopyFailed" \in log) =>
        /\ pc \in {"ret", "idle"}
        /\ result = "BackupFailed"
        /\ Exists(target)
        /\ target = pre
        /\ log \cap {"movedAway", "deleted", "put", "copyOnto", "rollback"} = {}

\* C4 witness: a call has just returned because the backup copy failed, and
\* the failed copy left a partial backup file behind
C4_Witness ==
    /\ Returned
    /\ "backupCopyFailed" \in log
    /\ bak = Torn
    /\ target = pre

\* C5: replace on a target that does not exist succeeds when no file-system
\* step fails; when it succeeds the target holds exactly the supplied bytes,
\* and no backup file stays behind unless its removal failed.
C5_ReplaceOnAbsentTarget ==
    (Returned /\ ~Exists(pre)) =>
        /\ (log \cap {"fault", "envMissing"} = {}) => result = "Ok"
        /\ (result = "Ok") => target = NewFile
        /\ (result = "Ok" /\ "cleanupFailed" \notin log) => ~Exists(bak)

\* C5 witness: a successful replace on an absent target that found a backup
\* file of an earlier call and removed it
C5_Witness ==
    /\ Returned
    /\ ~Exists(pre)
    /\ result = "Ok"
    /\ target = NewFile
    /\ "cleanup" \in log
    /\ ~Exists(bak)

\* C6: replace returns Ok only after the new file was put at the target path,
\* and every successful path then deletes the backup copy: after a success in
\* which that deletion did not fail, no backup file remains.
C6_SuccessDeletesBackup ==
    (Returned /\ result = "Ok") =>
        /\ "put" \in log
        /\ ("cleanupFailed" \notin log) => ~Exists(bak)

(* ---------------------------------------------------------------------- *)
(* Properties of the directory resolver                                   *)
(* ---------------------------------------------------------------------- *)

ResolverReturned == rpc = "ret"

\* C7: the resolver goes through the candidates in the fixed order 1..5 and
\* returns the first one whose write probe is accepted: it never goes on past
\* an accepted candidate, never returns a candidate that was not accepted, and
\* returns NoWritableLocation exactly when all five were gone through and
\* none was accepted.
C7_FirstAcceptedInOrder ==
    /\ \A i \in 1..Len(rTried) : rTried[i] = i
    /\ (rpc = "try") => (rPassed = {} /\ rIdx = Len(rTried) + 1)
    /\ ResolverReturned =>
        /\ rResult.ok <=> rPassed # {}
        /\ rResult.ok =>
             /\ rPassed = {rResult.dir}
             /\ rTried[Len(rTried)] = rResult.dir
        /\ ~rResult.ok =>
             /\ rResult.tag = "NoWritableLocation"
             /\ Len(rTried) = NCandidates

\* C7 witness: the first candidate was not accepted, the second failed its
\* write probe, the third was accepted and is the result
C7_Witness ==
    /\ ResolverReturned
    /\ rResult = ResolvedTo(3)
    /\ rTried = <<1, 2, 3>>
    /\ rLastErr = ProbeError("write", 2)

\* C8: when the resolver has returned, no candidate directory it probed holds
\* a write_test.tmp marker file: neither the accepted candidate nor the last
\* one that failed its probe.
C8_NoMarkerLeftBehind ==
    ResolverReturned =>
        /\ rResult.ok => cand[rResult.dir] # "marker"
        /\ (rLastErr # NoError) => cand[rLastErr.at] # "marker"

\* C9: when every candidate failed, the resolver fails with
\* NoWritableLocation and the error carries the underlying error of the last
\* candidate that was probed.
C9_ErrorCarriesLastCause ==
    (ResolverReturned /\ ~rResult.ok) =>
        /\ rResult.tag = "NoWritableLocation"
        /\ (rLastErr # NoError) => rResult.cause = rLastErr

(* ---------------------------------------------------------------------- *)
(* Properties of the snapshot engine                                      *)
(* ---------------------------------------------------------------------- *)

\* the call has resolved its directory, is past the existence check, and
\* there is no store.db in that directory
PastCheckWithoutSource ==
    /\ "resolved" \in slog
    /\ spc # "exists"
    /\ ~Exists(db[sDir])

\* C10: a snapshot called when the database file does not exist fails with
\* SourceMissing before it opens any connection, and creates no file at the
\* destination path.
C10_SourceMissing ==
    PastCheckWithoutSource =>
        /\ spc = "ret"
        /\ sResult = "SourceMissing"
        /\ slog \cap {"connOpened", "destOpened"} = {}
        /\ dest = sPre

\* C10 witness: the resolver settled on a directory other than the one that
\* holds store.db, and the snapshot returned SourceMissing
C10_Witness ==
    /\ spc = "ret"
    /\ PastCheckWithoutSource
    /\ sResult = "SourceMissing"


(* ---------------------------------------------------------------------- *)
(* Properties of the size check                                           *)
(* ---------------------------------------------------------------------- *)

\* the call has stated the backup file and has returned
SizeSeen == spc = "ret" /\ "sizeChecked" \in slog

\* C11: create_consistent_backup returns the success descriptor only for a
\* backup file of at least 1024 bytes: every length below 1024 that the stat
\* reports ends the call with TooSmall, and a length of exactly 1024 is not
\* rejected as too small
C11_SizeThreshold ==
    /\ (spc = "ret" /\ sResult = "Ok") => backup_size >= 1024
    /\ (SizeSeen /\ backup_size < 1024) => sResult = "TooSmall"
    /\ (SizeSeen /\ backup_size = 1024) => sResult \in {"Ok", "ChecksumFailed"}
    /\ (spc = "checksum") => backup_size >= 1024

\* a backup file of exactly 1024 bytes was accepted and described
C11_Witness == spc = "ret" /\ sResult = "Ok" /\ backup_size = 1024

(* ---------------------------------------------------------------------- *)
(* Properties of the fast checksum                                        *)
(* ---------------------------------------------------------------------- *)

\* the non-zero bytes of b from offset `from` up to, not including, `to`,
\* with `from` counted as offset `at`
Slice(b, from, to, at) ==
    { <<at + (p[1] - from), p[2]>> : p \in { q \in b.nz : q[1] >= from /\ q[1] < to } }

\* the non-zero bytes of the 8-byte little-endian form of n, for n < 2^24
LittleEndian8(n) ==
    { p \in { <<0, n % 256>>, <<1, (n \div 256) % 256>>, <<2, (n \div 65536) % 256>> } :
        p[2] # 0 }

\* sum is the digest of: the length of f in 8 bytes, lowest first; the first
\* min(N, 65536) bytes of f; the last 65536 bytes of f if and only if
\* N > 131072
DigestsExactly(f, sum) ==
    LET N == f.len
        head == IF N < 65536 THEN N ELSE 65536
        tail == IF N > 131072 THEN 65536 ELSE 0
    IN  /\ sum.len = 8 + head + tail
        /\ N <= 131072 => sum.len = 8 + head
        /\ Slice(sum, 0, 8, 0) = LittleEndian8(N)
        /\ Slice(sum, 8, 8 + head, 0) = Slice(f, 0, head, 0)
        /\ Slice(sum, 8 + head, sum.len, 0) =
             (IF N > 131072 THEN Slice(f, N - 65536, N, 0) ELSE {})

\* C12: for a file of N bytes the fast checksum digests exactly the 8-byte
\* little-endian form of N, then the first min(N, 65536) bytes, then the last
\* 65536 bytes if and only if N > 131072; for N <= 131072 the digested length
\* is 8 + min(N, 65536)
C12_DigestedBytes ==
    /\ sumA # NoSum => DigestsExactly(fileA, sumA)
    /\ sumB # NoSum => DigestsExactly(fileB, sumB)

\* the checksum of a file of exactly 131072 bytes was computed over 8 + 65536
\* bytes
C12_Witness == sumA # NoSum /\ fileA.len = 131072 /\ sumA.len = 8 + 65536

\* both checksums have been computed
BothSummed == sumA # NoSum /\ sumB # NoSum

\* the first 65536 bytes of the two files are the same
SameHead == Slice(fileA, 0, 65536, 0) = Slice(fileB, 0, 65536, 0)

\* the last 65536 bytes of the two files, which have the same length, are
\* the same
SameTail ==
    Slice(fileA, fileA.len - 65536, fileA.len, 0) = Slice(fileB, fileB.len - 65536, fileB.len, 0)

\* C13: two files of the same length N > 131072 with the same first 65536
\* bytes and the same last 65536 bytes have the same fast checksum, whatever
\* lies between the two windows
C13_MiddleIgnored ==
    (BothSummed /\ fileA.len = fileB.len /\ fileA.len > 131072 /\ SameHead /\ SameTail)
        => sumA = sumB

\* two files that differ in a byte between the windows got the same checksum
C13_Witness ==
    /\ BothSummed
    /\ fileA.len = fileB.len
    /\ fileA.len > 131072
    /\ fileA # fileB
    /\ SameHead
    /\ SameTail
    /\ sumA = sumB

\* C14: with distinct digests for distinct inputs, the fast checksums of two
\* files differ when their lengths differ, when they have the same length
\* and differ in a byte among the first 65536, and when they have the same
\* length N > 131072 and differ in a byte among the last 65536
C14_Sensitive ==
    BothSummed =>
        /\ fileA.len # fileB.len => sumA # sumB
        /\ (fileA.len = fileB.len /\ ~SameHead) => sumA # sumB
        /\ (fileA.len = fileB.len /\ fileA.len > 131072 /\ ~SameTail) => sumA # sumB

\* two files longer than 131072 bytes that differ in their last byte only got
\* different checksums
C14_Witness ==
    /\ BothSummed
    /\ fileA.len = fileB.len
    /\ fileA.len > 131072
    /\ SameHead
    /\ Slice(fileA, 0, fileA.len - 1, 0) = Slice(fileB, 0, fileB.len - 1, 0)
    /\ fileA # fileB
    /\ sumA # sumB

(* ---------------------------------------------------------------------- *)
(* Properties of the restore file cleanup                                 *)
(* ---------------------------------------------------------------------- *)

DelReturned == dpc = "ret"

\* the call returned one of its two deletion errors
DeleteFailed == DelReturned /\ dResult \in {"FailedToDelete", "StillExists"}

\* the steps of the ladder that try to remove the file
DeleteAttemptEvents ==
    {"removed", "removeFailed", "delOk", "delFailed", "renamed", "renameFailed",
     "scratchRemoved", "scratchRemoveFailed"}

LastEvent == dlog[Len(dlog)]

\* C15: cleanup_restore_file returns Ok only after an existence check that
\* found the path empty and that no deletion attempt followed: the check at
\* entry when no attempt was made at all, otherwise the check after the
\* ladder; a path that still holds a file after a strategy reported success
\* makes the call return a deletion error
C15_OkOnlyIfSeenAbsent ==
    /\ (DelReturned /\ dResult = "Ok") =>
          /\ Len(dlog) > 0
          /\ LastEvent \in {"absentAtEntry", "seenAbsent"}
          /\ LastEvent = "absentAtEntry" =>
                \A i \in 1..Len(dlog) : dlog[i] \notin DeleteAttemptEvents
          /\ ~Exists(rfile[dDir])
    /\ (DelReturned /\ dsuccess /\ Exists(rfile[dDir])) => DeleteFailed

\* the forced delete reported success, the file was still there, and the call
\* returned a deletion error
C15_Witness ==
    /\ DelReturned
    /\ dsuccess
    /\ Exists(rfile[dDir])
    /\ LastEvent = "seenPresent"
    /\ dResult = "StillExists"

\* C16: when cleanup_restore_file returns its deletion error because no
\* strategy of the ladder succeeded, the file is still at the original path
\* with the content it had; no failing call leaves the original path empty
\* with the file under the scratch name
C16_FailureLeavesFileInPlace ==
    /\ (DelReturned /\ dResult = "FailedToDelete") => rfile[dDir] = dPre[dDir]
    /\ DeleteFailed => ~(~Exists(rfile[dDir]) /\ scratch[dDir] = dPre[dDir])

(* ---------------------------------------------------------------------- *)
(* Properties of the restore at startup                                   *)
(* ---------------------------------------------------------------------- *)

\* a startup restore is running or has just returned
StartActive == upc # "idle"

\* C17: startup_database_restore on a database file that exists holds a
\* complete copy of the file's pre-call content under
\* store.db.pre-restore-backup by the time it has changed the file; when the
\* copy fails the call returns an error and the file is as it was
C17_SafetyCopyFirst ==
    /\ \A d \in Dirs :
          (StartActive /\ Exists(uPre[d]) /\ db[d] # uPre[d]) => prb[d] = uPre[d]
    /\ (upc = "ret" /\ uResult = "SafetyCopyFailed") => db = uPre

\* the database file existed, was overwritten, and its old content is in the
\* safety backup
C17_Witness ==
    /\ upc = "ret"
    /\ uResult = "Ok"
    /\ Exists(uPre[uDir])
    /\ db[uDir] # uPre[uDir]
    /\ prb[uDir] = uPre[uDir]

\* C18: the restore at startup, like the restore at run time, brings the
\* supplied bytes to the database path through the replace engine: whenever
\* it changes the file at the database path, a staged temp file holds the
\* supplied bytes and the file comes from it, never from a write of the bytes
\* onto the database path
C18_ThroughReplaceEngine ==
    [][ \A d \in Dirs :
          (StartActive /\ db'[d] # db[d]) => (tmp = Whole(uData) /\ db'[d] = tmp) ]_vars

(* ---------------------------------------------------------------------- *)
(* Properties of the checkpoints                                          *)
(* ---------------------------------------------------------------------- *)

\* the running or returned snapshot call had its checkpoint fail
CheckpointFailedInSnapshot == "checkpointFailed" \in slog

\* what the steps after the checkpoint can make the snapshot return
AfterCheckpointResults ==
    {"CreateBackupFailed", "BackupFailed", "MetadataFailed", "TooSmall",
     "ChecksumFailed", "Ok"}

\* a step of close_database_connections failed: the connection could not be
\* opened, or a statement returned an error
SomeCloseStepFailed == \E i \in 1..Len(clog) : ~clog[i].ok

\* C19: a failed WAL checkpoint never ends the calling command. In
\* create_consistent_backup the call goes on to the online backup; when it
\* returns, its result is one that the later steps produce, it is Ok exactly
\* when the size check and the fast checksum both passed, and an Ok result
\* comes with a completed backup file. close_database_connections returns Ok
\* whichever of its statements failed and when the connection could not be
\* opened
C19_CheckpointFailureNotFatal ==
    /\ (CheckpointFailedInSnapshot /\ spc # "checkpoint") =>
          /\ spc \in {"opendest", "backup", "verify", "checksum", "ret"}
          /\ spc = "ret" =>
                /\ sResult \in AfterCheckpointResults
                /\ sResult = "Ok" <=>
                      ("sizeChecked" \in slog /\ backup_size >= 1024 /\ "checksummed" \in slog)
                /\ sResult = "Ok" => dest[sDir] = db[sDir]
    /\ (cpc = "ret" /\ SomeCloseStepFailed) => cResult = "Ok"
    /\ (cpc = "ret" /\ cResult # "Ok") => clog = <<>>

\* a snapshot whose checkpoint failed went through backup, size check and
\* checksum and returned the descriptor
C19_Witness ==
    /\ spc = "ret"
    /\ CheckpointFailedInSnapshot
    /\ sResult = "Ok"
    /\ "checksummed" \in slog

(* ---------------------------------------------------------------------- *)
(* Properties of the restart                                              *)
(* ---------------------------------------------------------------------- *)

\* the delay restart_application is configured with: 1000 ms in a Windows
\* build, 2000 ms in any other
ConfiguredDelay == IF windows THEN 1000 ELSE 2000

\* C20: the restart that restart_application scheduled does not end the
\* process before the configured delay has passed since the scheduling, and
\* restart_application returns Ok without waiting for that delay: the call
\* has returned before the delay is over, and so before the process exits
C20_ExitNotBeforeDelay ==
    /\ ~alive => now - scheduledAt >= ConfiguredDelay
    /\ qpc = "ret" => (qResult = "Ok" /\ returnedAt - scheduledAt < ConfiguredDelay)
    /\ ~alive => (qpc = "ret" /\ qResult = "Ok")
    /\ (tpc \notin {"none", "sleep"}) => now - scheduledAt >= ConfiguredDelay

\* the call returned Ok at once, and the process exited when the delay had
\* just passed
C20_Witness ==
    /\ ~alive
    /\ qpc = "ret"
    /\ qResult = "Ok"
    /\ returnedAt = scheduledAt
    /\ now - scheduledAt = ConfiguredDelay

(* ---------------------------------------------------------------------- *)
(* Properties of the swap step of atomic_database_replace                 *)
(* ---------------------------------------------------------------------- *)

\* the file-system calls of the history that rename the temp file onto the
\* target path (windows_support.rs 140, main.rs 292)
RenamesOnto == {"renameOnto", "move"}

\* the file-system calls of the history that move the existing target away
\* or delete it (main.rs 242, 263)
TakesTargetAway == {"moveOld", "delete"}

\* C21: in the swap step a rename of the temp file onto the target is tried
\* first: every call that moves the existing target away or deletes it comes
\* after a rename of the temp file onto the target in the history of the call
C21_RenameOverTriedFirst ==
    \A i \in 1..Len(tries) :
        tries[i].op \in TakesTargetAway =>
            \E j \in 1..(i - 1) : tries[j].op \in RenamesOnto

\* the step is taken by the part of a call that puts the backup back
RollingBack == pc \in {"g_rollback", "w_finish"}

\* C22: the target path receives new content only by a rename of the fully
\* written temp file: every step of a call, the rollback aside, that leaves
\* another file at the target path starts with the temp file holding all the
\* new bytes, ends with the temp file gone and the target holding those bytes
C22_TargetOnlyByRename ==
    [][ (InCall /\ ~RollingBack /\ target' # target /\ Exists(target')) =>
            (tmp = NewFile /\ tmp' = Absent /\ target' = NewFile) ]_vars

\* the positions of the history at which the call tried to take the existing
\* target away: renames to the backup path and deletes
RemovalAttempts == {i \in 1..Len(tries) : tries[i].op \in TakesTargetAway}

\* C23: a call makes at most 3 attempts to remove the existing target, each
\* failed attempt but the last followed by a pause of 500 ms x attempt; when
\* none succeeds the call returns its error with the temp file holding the
\* staged bytes and the target holding its pre-call content
C23_RemovalBounded ==
    /\ Cardinality(RemovalAttempts) <= 3
    /\ \A i \in RemovalAttempts :
          (~tries[i].ok /\ tries[i].pause # 0) => tries[i].pause = 500 * tries[i].n
    /\ (Returned /\ result = "RemoveFailed") => (tmp = NewFile /\ target = pre)

\* the positions of the history at which the call renamed the temp file to
\* the database path on the generic path, and at which it rolled back
MoveTries == {i \in 1..Len(tries) : tries[i].op = "move"}
RollbackTries == {i \in 1..Len(tries) : tries[i].op = "rollback"}

\* C24: the rename of the temp file into the target's place is tried at most
\* 5 times, attempt n < 5 that fails being followed by a pause of 1000 ms x n;
\* the rollback happens at most once in a call, only directly after the 5th
\* rename has failed, and the call then returns the error of the rename,
\* whether the rollback succeeded or not
C24_FinalRenameAndRollback ==
    /\ Cardinality(MoveTries) <= 5
    /\ \A i \in MoveTries :
          /\ tries[i].n \in 1..5
          /\ tries[i].pause = IF ~tries[i].ok /\ tries[i].n < 5
                                THEN 1000 * tries[i].n ELSE 0
    /\ Cardinality(RollbackTries) <= 1
    /\ \A i \in RollbackTries :
          /\ i > 1
          /\ tries[i - 1] = Try("move", 5, FALSE, 0)
          /\ i = Len(tries)
          /\ ~InCall
          /\ result = "MoveFailed"

\* a call returned after five failed renames and a rollback that failed too
C24_Witness ==
    /\ Returned
    /\ Cardinality(MoveTries) = 5
    /\ \E i \in RollbackTries : ~tries[i].ok
    /\ result = "MoveFailed"

\* C25: every call of atomic_database_replace ends, with Ok or an error, after
\* a bounded number of file-system calls (at most 17: one write, one removal
\* of an old backup, 3 renames away, one copy, 5 deletes, 5 renames into
\* place and one cleanup or rollback), and never with the 'Unexpected error'
\* that follows the last loop
C25_Terminates ==
    /\ [](Len(tries) <= 17 /\ result # "Unexpected")
    /\ (InCall ~> Returned)

\* a call returned after the longest sequence of file-system calls
C25_Witness == Returned /\ Len(tries) = 17

(* ---------------------------------------------------------------------- *)
(* Properties of close_database_connections                               *)
(* ---------------------------------------------------------------------- *)

\* the order of the statements as the claim has it
ClaimedOrder ==
    << "BEGIN IMMEDIATE; COMMIT;",
       "PRAGMA wal_checkpoint(RESTART);",
       "PRAGMA wal_checkpoint(TRUNCATE);",
       "PRAGMA wal_checkpoint(FULL);" >>

\* C26: close_database_connections issues the empty transaction, then the
\* RESTART checkpoint, then the TRUNCATE checkpoint, then the FULL
\* checkpoint: of two of these statements in the history of the call the one
\* that is earlier in this order was issued earlier, so RESTART is never
\* issued after TRUNCATE
C26_StatementOrder ==
    \A a, b \in 1..Len(ClaimedOrder) :
        a < b =>
            \A i, j \in 1..Len(clog) :
                (clog[i].stmt = ClaimedOrder[a] /\ clog[j].stmt = ClaimedOrder[b])
                    => i < j

\* the running or finished call opened its connection
CloseOpened == Len(clog) > 0 /\ clog[1] = Ran("open", TRUE)

\* the call is past its statements: at the last sleep or returned
CloseDone == cpc \in {"sleep", "ret"}

\* C27: once close_database_connections has opened its connection, every
\* statement of the sequence is executed exactly once whichever of them
\* failed, and the connection is closed before the function returns
C27_EveryStepOnceThenClosed ==
    /\ \A i, j \in 1..Len(clog) : clog[i].stmt = clog[j].stmt => i = j
    /\ (CloseOpened /\ CloseDone) =>
          /\ Len(clog) = 1 + Len(Statements)
          /\ \A k \in 1..Len(Statements) : clog[k + 1].stmt = Statements[k]
          /\ ~cConn

\* a call returned whose first statement failed and whose last one succeeded
C27_Witness ==
    /\ cpc = "ret"
    /\ CloseOpened
    /\ Len(clog) = 1 + Len(Statements)
    /\ ~clog[2].ok
    /\ clog[1 + Len(Statements)].ok

(* ---------------------------------------------------------------------- *)
(* Properties of the ladder of cleanup_restore_file                       *)
(* ---------------------------------------------------------------------- *)

\* the events of the history that are a run of the forced delete, and of the
\* rename to the scratch name
ForceEvents == {"delOk", "delFailed"}
RenameEvents == {"renamed", "renameFailed"}

\* the events before position i of the history
Before(i) == {dlog[j] : j \in 1..(i - 1)}

\* C28: a strategy of the ladder of cleanup_restore_file is run only if every
\* earlier one failed: the forced delete runs only after a direct delete that
\* failed, the rename to the scratch name only after a direct delete that
\* failed and, on a Windows build, a forced delete that failed; after a
\* strategy that succeeded no later one runs
C28_LadderInOrder ==
    \A i \in 1..Len(dlog) :
        /\ dlog[i] \in ForceEvents =>
              /\ "removeFailed" \in Before(i)
              /\ "removed" \notin Before(i)
        /\ dlog[i] \in RenameEvents =>
              /\ "removeFailed" \in Before(i)
              /\ Before(i) \cap {"removed", "delOk"} = {}
              /\ windows => "delFailed" \in Before(i)

\* a call on a Windows build went down the whole ladder and returned
C28_Witness ==
    /\ dpc = "ret"
    /\ windows
    /\ \E i \in 1..Len(dlog) : dlog[i] = "renamed" /\ "delFailed" \in Before(i)

(* ---------------------------------------------------------------------- *)
(* Properties of restore_wal_file and restore_shm_file                    *)
(* ---------------------------------------------------------------------- *)

\* the paths whose file the returned call changed
SideChanged == {p \in SidePaths : files[p] # kPre[p]}

\* C29: restore_wal_file called with path P changes at most the file at
\* P + "-wal" and restore_shm_file at most the file at P + "-shm", whether
\* the write succeeded or failed: the database file P and the other side
\* file are as they were before the call
C29_OnlyOwnSideFile ==
    kpc = "ret" =>
        /\ kKind = "wal" => SideChanged \subseteq {kPath \o "-wal"}
        /\ kKind = "shm" => SideChanged \subseteq {kPath \o "-shm"}
        /\ files[kPath] = kPre[kPath]
        /\ kKind = "wal" => files[kPath \o "-shm"] = kPre[kPath \o "-shm"]
        /\ kKind = "shm" => files[kPath \o "-wal"] = kPre[kPath \o "-wal"]

\* restore_shm_file failed midway next to an existing database file and an
\* existing WAL file
C29_Witness ==
    /\ kpc = "ret"
    /\ kKind = "shm"
    /\ kResult = "Failed"
    /\ SideChanged = {kPath \o "-shm"}
    /\ Exists(files[kPath])
    /\ Exists(files[kPath \o "-wal"])

(* ---------------------------------------------------------------------- *)
(* Properties of the scheduled restart                                    *)
(* ---------------------------------------------------------------------- *)

\* a restart has been scheduled: the background thread exists
Scheduled == tpc # "none"

\* C30: once restart_application has scheduled the restart, nothing takes the
\* background thread back, and with a background thread that keeps running
\* the process exits in the end, whichever branch the thread takes (new
\* instance started, start failed, executable path unavailable)
C30_ScheduledExits ==
    /\ [][Scheduled => Scheduled']_vars
    /\ Scheduled ~> (~alive /\ tpc = "exited")

\* the process exited with status 1: a branch of the thread that failed
C30_Witness == Scheduled /\ ~alive /\ exitCode = 1

(* ---------------------------------------------------------------------- *)
(* Properties of sequences of atomic_database_replace calls               *)
(* ---------------------------------------------------------------------- *)

\* C31: over any sequence of calls made one after the other, when a call
\* returns Ok the target holds exactly the bytes given to that call, and when
\* a call returns an error the target holds what it held before that call
C31_OkNewErrorOld ==
    Returned =>
        IF result = "Ok" THEN target = NewFile ELSE target = pre

\* the file-system calls of the history that put the backup file back at the
\* target path (main.rs 312, windows_support.rs 183)
PutsBackupBack == {"rollback", "copyBack"}

\* C32: the rollback restores only a backup that the same call made from the
\* target: a call that moved or copied the backup file to the target path has
\* made that backup file itself, so a backup file left by an earlier call
\* never reaches the target path
C32_RollbackOwnBackup ==
    \A i \in 1..Len(tries) :
        (tries[i].op \in PutsBackupBack /\ tries[i].ok) => "backupMade" \in log

\* C33: when a call returns Ok the staging temp file no longer exists: the
\* staged bytes are at the target path and nowhere else
C33_NoTempAfterOk ==
    (Returned /\ result = "Ok") => (~Exists(tmp) /\ target = NewFile)

(* ---------------------------------------------------------------------- *)
(* Properties of the database path                                        *)
(* ---------------------------------------------------------------------- *)

\* main.rs 111-124, 186-199: atomic_database_replace and
\* close_database_connections join the root they read from the environment
\* (APPDATA, or HOME/.local/share) with the application name: the first
\* candidate directory, whatever its state
FixedDir == AppData

\* C34: in every environment all operations act on the same database file:
\* a path returned by get_database_path lies in the directory that
\* atomic_database_replace and close_database_connections use
C34_SameDatabasePath ==
    pathResult.ok => pathResult.dir = FixedDir

(* ---------------------------------------------------------------------- *)
(* Properties of replace calls that are not serialized                    *)
(* ---------------------------------------------------------------------- *)

\* call p returns in this step
ReturnsNow(p) == calls[p].pc # "ret" /\ calls'[p].pc = "ret"

\* both calls have returned
BothReturned == \A p \in Procs : calls[p].pc = "ret"

\* one of the calls returned Ok
SomeOk == \E p \in Procs : calls[p].pc = "ret" /\ calls[p].result = "Ok"

\* C35: when two calls with different contents run interleaved on the same
\* target, a call that returns Ok leaves, at the moment it returns, a target
\* that exists and holds that call's bytes, and once both calls have returned
\* the target exists (stated here for the runs in which a call returned Ok)
C35_InterleavedCallsKeepTarget ==
    /\ [][ \A p \in Procs :
             (ReturnsNow(p) /\ calls'[p].result = "Ok")
                 => target' = Whole(calls[p].data) ]_vars
    /\ []((BothReturned /\ SomeOk) => Exists(target))

====
